---- MODULE Spec2Model ----
(***************************************************************************)
(* A model of turbo-translate: the recorder's voice-activity loop          *)
(* (recorder.py), the main window's single-flight gate in front of the     *)
(* pipeline worker (main.py) and TranslationPipeline.process_audio with    *)
(* its three backend clients (api.py).                                     *)
(*                                                                         *)
(* Times are whole seconds; the midpoint (start + end) / 2 of a span is    *)
(* compared doubled, start + end against 2 * bound, which is the same      *)
(* comparison without the division.  A frame is known by its place in the  *)
(* stream and its mean absolute amplitude; gain and silence threshold are  *)
(* in percent, the voice timeout in milliseconds, and a level is kept as   *)
(* amplitude * gain, so that 1.0 is 100 * FullScale.                       *)
(***************************************************************************)
EXTENDS Integers, Sequences, FiniteSets, TLC

\* ------------------------------------------------------------- bounds
\* Segments handed to the segment-ready signal in the application runs.
MaxSegments == 3
\* Longest list of spans in a transcription response.
MaxSpans == 2
\* Longest list of spans in a diarization response.
MaxDiar == 2
\* Frames the audio stream delivers in a recorder run.
MaxFrames == 5
\* The voice timeouts tried: 50 ms, 100 ms, ... up to this many steps.
MaxTimeoutSteps == 3
MaxProfiles == 2
MaxDiskFailures == 1
\* Steps of 50 ms in the duration of an enrollment capture.
MaxEnrollSteps == 4

\* ------------------------------------------------- program constants
\* AudioRecorder's default sample_rate and chunk_size, and the magnitude an
\* int16 level is divided by.
SampleRate == 16000
ChunkSize == 1024
FullScale == 32768

SeqsUpTo(S, n) == UNION {[1..k -> S] : k \in 0..n}

\* ------------------------------------------------------------ helpers
\* dict.get(key, default)
DictGet(d, key, default) == IF key \in DOMAIN d THEN d[key] ELSE default

\* str.strip() on the texts the model feeds in.
Strip(t) == IF t = " szia " THEN "szia" ELSE t

\* ------------------------------------------------- the model's inputs
Languages == {"hu", "en"}

\* Config.source_language / Config.target_language as set in the settings.
Configs ==
  { [source_language |-> "hu", target_language |-> "en"],
    [source_language |-> "en", target_language |-> "hu"],
    [source_language |-> "en", target_language |-> "en"] }

\* The ways a backend call fails: httpx.TimeoutException, httpx.HTTPStatusError
\* (a non-2xx answer) and any other exception (transport, malformed JSON).
Failures == {"timeout", "status", "error"}

\* "segments" entries of a transcription response.
WhisperSegments ==
  { [text |-> " szia ", start |-> 0, end |-> 2],
    [text |-> "hello", start |-> 2, end |-> 5] }

\* Bodies of a successful transcription response; "language" may be absent.
\* "text" only matters when "segments" is empty, so it is varied only there.
WhisperBodies(maxSpans) ==
  { b \in [segments : SeqsUpTo(WhisperSegments, maxSpans), text : {"", " szia "},
           language : {"hu", "en"}, duration : {5}]
      : b.segments = <<>> \/ b.text = "" }
    \cup
  { [segments |-> s, text |-> "", duration |-> 5]
      : s \in SeqsUpTo(WhisperSegments, maxSpans) }

WhisperResponses(maxSpans) ==
  { [kind |-> "ok", body |-> b] : b \in WhisperBodies(maxSpans) }
    \cup { [kind |-> f, body |-> [duration |-> 0]] : f \in Failures }

\* "segments" entries of a diarization response: overlapping spans, a span
\* without a "speaker" key and a malformed one without "start".
DiarSegments ==
  { [start |-> 0, end |-> 1, speaker |-> 1],
    [start |-> 3, end |-> 4, speaker |-> 2],
    [start |-> 0, end |-> 4, speaker |-> 3],
    [start |-> 1, end |-> 3],
    [end |-> 4, speaker |-> 1] }

DiarResponses(maxDiar) ==
  { [kind |-> "ok", segments |-> s] : s \in SeqsUpTo(DiarSegments, maxDiar) }
    \cup { [kind |-> f, segments |-> <<>>] : f \in Failures }

\* Outcomes of a translation call: a body with "translatedText", a body
\* without it, or a failure.
TranslateOutcomes == {"ok", "nokey"} \cup Failures

\* What the translation service answers for (text, source, target).
Translated(text, src, tgt) == <<"tr", text, src, tgt>>
Untranslated(text) == <<"raw", text>>

\* AudioRecorder settings: voice_timeout in ms, gain and silence_threshold
\* in percent.  50 ms is less than one chunk of 64 ms.
RecConfigs ==
  [voice_timeout : {50 * k : k \in 1..MaxTimeoutSteps},
   gain : {100, 200},
   silence_threshold : {3, 50}]

\* Config's defaults: 2.0 s, gain 1.0, threshold 0.03.
DefaultRecConfig == [voice_timeout |-> 2000, gain |-> 100, silence_threshold |-> 3]

\* Mean absolute amplitudes of the frames the stream delivers: silence, half
\* of full scale (level 0.5 at gain 1.0, 1.0 at gain 2.0) and louder.
Amplitudes == {0, 16384, 20000}

(***************************************************************************)
(* State.                                                                  *)
(***************************************************************************)
VARIABLES
  rec_config,     \* AudioRecorder: voice_timeout, gain, silence_threshold
  recording,      \* AudioRecorder._recording
  thread,         \* AudioRecorder._thread: 0 for None, else an index of loops
  stream,         \* AudioRecorder._stream is an open stream (FALSE: None)
  frames,         \* AudioRecorder._frames
  voice_active,   \* AudioRecorder._voice_active
  level,          \* AudioRecorder._level
  loops,          \* the threads running _continuous_loop, with their locals
  gui,            \* where the caller of start_continuous / stop stands
  source,         \* history: the frames read from the stream, in order
  events,         \* history: the calls of level_callback and segment_callback
  enrollment,     \* a call of record_for_enrollment: its place, locals and result
  pyaudio         \* AudioRecorder._pyaudio is a PyAudio instance (FALSE: None)

recVars == <<rec_config, recording, thread, stream, frames, voice_active, level,
             loops, gui, source, events, enrollment, pyaudio>>

VARIABLES
  listening,      \* MainWindow._listening
  handled,        \* how many of `signals` the GUI thread has handled
  config,         \* MainWindow.config: source_language, target_language
  processing,     \* MainWindow._processing, the busy flag
  segment_ready,  \* SignalBridge.segment_ready: emitted, not yet handled
  nemitted,       \* segments handed to segment_callback so far
  arrivals,       \* history: each handled segment with the flag it met
  workers,        \* the worker threads started by _on_segment_ready
  calls,          \* history: the backend calls made, in order
  signals,        \* history: transcription_done / error_occurred emitted
  tts_enabled,    \* MainWindow.config.tts_enabled
  spoken          \* history: the calls of _speak_translation

appVars == <<listening, handled, config, processing, segment_ready, nemitted,
             arrivals, workers, calls, signals, tts_enabled, spoken>>

VARIABLES
  speaker_embeddings, \* diarization service: the dict of profiles, in insertion order
  index_file,         \* EMBEDDINGS_DIR/index.json: whether it exists, its entries
  emb_files,          \* EMBEDDINGS_DIR/*.npy: the vector stored under each file name
  reply,              \* the response to the last request of the service
  removed,            \* history: ids deleted and not stored again since
  ever_removed,       \* history: ids deleted at some time
  disk_failures       \* history: how often save_speaker_embeddings has raised

regVars == <<speaker_embeddings, index_file, emb_files, reply, removed, ever_removed,
             disk_failures>>

vars == <<appVars, recVars, regVars>>

NoTranscription == [segments |-> <<>>, language |-> "", duration |-> 0]

\* A thread started at main.py:610, about to run process().
NewWorker(audio, hint) ==
  [pc |-> "transcribe", audio |-> audio, hint |-> hint,
   transcription |-> NoTranscription, diarization_segments |-> <<>>,
   idx |-> 0, results |-> <<>>, exc |-> <<>>]

\* MainWindow after __init__: nothing is being processed.
AppInit(cfgs) ==
  /\ listening = FALSE
  /\ handled = 0
  /\ config \in cfgs
  /\ processing = FALSE
  /\ segment_ready = <<>>
  /\ nemitted = 0
  /\ arrivals = <<>>
  /\ workers = <<>>
  /\ calls = <<>>
  /\ signals = <<>>
  /\ tts_enabled = TRUE
  /\ spoken = <<>>

\* b"", and record_for_enrollment before it is called.
EmptyBytes == [rate |-> 0, data |-> <<>>]
NoEnrollment ==
  [pc |-> "idle", duration |-> 0, num_chunks |-> 0, frames |-> <<>>,
   reads |-> <<>>, result |-> EmptyBytes]

\* AudioRecorder after __init__: not recording, no thread, no stream.
RecInit(cfgs) ==
  /\ rec_config \in cfgs
  /\ recording = FALSE
  /\ thread = 0
  /\ stream = FALSE
  /\ frames = <<>>
  /\ voice_active = FALSE
  /\ level = 0
  /\ loops = <<>>
  /\ gui = "idle"
  /\ source = <<>>
  /\ events = <<>>
  /\ enrollment = NoEnrollment
  /\ pyaudio = FALSE

\* The diarization service after its first start-up: an empty directory
\* and an empty dict.
NoReply == [op |-> "none", status |-> 0]

RegInit ==
  /\ speaker_embeddings = <<>>
  /\ index_file = [exists |-> FALSE, entries |-> <<>>]
  /\ emb_files = {}
  /\ reply = NoReply
  /\ removed = {}
  /\ ever_removed = {}
  /\ disk_failures = 0

Init == AppInit(Configs) /\ RecInit({DefaultRecConfig}) /\ RegInit

(***************************************************************************)
(* main.py: the segment-ready signal and its handler.                      *)
(***************************************************************************)
\* The recorder thread hands a finished segment to segment_callback, which
\* emits segment_ready; the emit is queued to the GUI thread.
segment_callback(limit) ==
  /\ nemitted < limit
  /\ nemitted' = nemitted + 1
  /\ segment_ready' = Append(segment_ready, nemitted + 1)
  /\ UNCHANGED <<tts_enabled, spoken, listening, handled, config, processing, arrivals, workers, calls, signals>>
  /\ UNCHANGED <<recVars, regVars>>

\* A gate that never closes.
Busy_never(flag) == FALSE

\* `if self._processing: return`
Busy(flag) == flag

\* A handler that puts a segment it meets busy back on the queue.
on_segment_ready_queueing ==
  /\ segment_ready # <<>>
  /\ LET audio_data == Head(segment_ready) IN
       /\ arrivals' = Append(arrivals, [audio |-> audio_data, busy |-> processing])
       /\ IF Busy(processing)
            THEN /\ segment_ready' = Append(Tail(segment_ready), audio_data)
                 /\ UNCHANGED <<tts_enabled, spoken, processing, workers>>
            ELSE /\ segment_ready' = Tail(segment_ready)
                 /\ processing' = TRUE
                 /\ workers' = Append(workers,
                                      NewWorker(audio_data, config.source_language))
  /\ UNCHANGED <<tts_enabled, spoken, listening, handled, config, nemitted, calls, signals>>
  /\ UNCHANGED <<recVars, regVars>>

\* MainWindow._on_segment_ready, run by the GUI thread for one queued emit.
on_segment_ready ==
  /\ segment_ready # <<>>
  /\ LET audio_data == Head(segment_ready) IN
       /\ segment_ready' = Tail(segment_ready)
       /\ arrivals' = Append(arrivals, [audio |-> audio_data, busy |-> processing])
       /\ IF Busy(processing)
            THEN UNCHANGED <<tts_enabled, spoken, processing, workers>>
            ELSE /\ processing' = TRUE
                 /\ workers' = Append(workers,
                                      NewWorker(audio_data, config.source_language))
  /\ UNCHANGED <<tts_enabled, spoken, listening, handled, config, nemitted, calls, signals>>
  /\ UNCHANGED <<recVars, regVars>>

(***************************************************************************)
(* api.py: the backend clients, as far as process_audio sees them.         *)
(***************************************************************************)
\* WhisperClient.transcribe on a 2xx answer: the spans of "segments" with
\* their text stripped, or one span made of "text" when there are none;
\* the language falls back to the hint, then to "unknown".
whisper_segments(body) ==
  LET segs == DictGet(body, "segments", <<>>)
      parsed == [i \in 1..Len(segs) |->
                   [text |-> Strip(DictGet(segs[i], "text", "")),
                    start |-> DictGet(segs[i], "start", 0),
                    end |-> DictGet(segs[i], "end", 0)]]
  IN IF parsed = <<>> /\ DictGet(body, "text", "") # ""
       THEN << [text |-> Strip(body.text), start |-> 0,
                end |-> DictGet(body, "duration", 0)] >>
       ELSE parsed

whisper_transcribe(body, language) ==
  [segments |-> whisper_segments(body),
   language |-> DictGet(body, "language",
                        IF language # "" THEN language ELSE "unknown"),
   duration |-> DictGet(body, "duration", 0)]

\* The APIError each client raises for a failed call.
APIErrorMessage(service, failure) ==
  CASE failure = "timeout" -> <<service, "request timed out">>
    [] failure = "status" -> <<service, "failed">>
    [] OTHER -> <<service, "error">>

NoError == <<>>
KeyError == <<"KeyError">>

\* A containment test that leaves the end of the span out.
MidpointWithin_open(seg, lo, hi) ==
  /\ 2 * lo <= seg.start + seg.end
  /\ seg.start + seg.end < 2 * hi

\* `diar_seg["start"] <= seg_mid <= diar_seg["end"]`, seg_mid = (start+end)/2
MidpointWithin(seg, lo, hi) ==
  /\ 2 * lo <= seg.start + seg.end
  /\ seg.start + seg.end <= 2 * hi

\* The inner loop of step 3 from diarization span j on: the speaker of the
\* first span that holds the midpoint, 0 when none does; a span without a
\* "start" or "end" key raises KeyError when the loop reaches it.
RECURSIVE FindSpeaker(_, _, _)
FindSpeaker(seg, diarization_segments, j) ==
  IF j > Len(diarization_segments)
    THEN [raised |-> FALSE, speaker_id |-> 0]
    ELSE LET diar_seg == diarization_segments[j] IN
         IF "start" \notin DOMAIN diar_seg
           THEN [raised |-> TRUE, speaker_id |-> 0]
         ELSE IF ~(2 * diar_seg.start <= seg.start + seg.end)
           THEN FindSpeaker(seg, diarization_segments, j + 1)
         ELSE IF "end" \notin DOMAIN diar_seg
           THEN [raised |-> TRUE, speaker_id |-> 0]
         ELSE IF MidpointWithin(seg, diar_seg.start, diar_seg.end)
           THEN [raised |-> FALSE, speaker_id |-> DictGet(diar_seg, "speaker", 0)]
         ELSE FindSpeaker(seg, diarization_segments, j + 1)

\* The single-speaker fallback of step 2.
FallbackDiarization(transcription) ==
  << [start |-> 0, end |-> transcription.duration, speaker |-> 0] >>

\* A direction that is always towards the target language.
TranslateTarget_fixed(detected_lang, cfg) == cfg.target_language

\* Step 4: the language a span is translated into.
TranslateTarget(detected_lang, cfg) ==
  IF detected_lang = cfg.target_language
    THEN cfg.source_language
    ELSE cfg.target_language

\* TranslationClient.translate on a 2xx answer:
\* result.get("translatedText", text)
translate_result(outcome, text, src, tgt) ==
  IF outcome = "ok" THEN Translated(text, src, tgt)
  ELSE IF outcome = "empty" THEN <<>>
  ELSE Untranslated(text)

\* One entry of the call history: the request and how the backend answered.
Call(service, w, text, src, tgt, outcome) ==
  [service |-> service, worker |-> w, audio |-> workers[w].audio,
   text |-> text, source |-> src, target |-> tgt, outcome |-> outcome]

\* The dict appended to `results` for one span.
Utterance(seg, translation, speaker_id, detected_lang) ==
  [text |-> seg.text,
   translation |-> translation,
   start |-> seg.start,
   end |-> seg.end,
   speaker_id |-> speaker_id,
   language |-> detected_lang]

\* A list built newest first.
AppendResult_front(results, utterance) == <<utterance>> \o results

\* results.append(...)
AppendResult(results, utterance) == Append(results, utterance)

(***************************************************************************)
(* TranslationPipeline.process_audio, one backend call per step, run by    *)
(* worker w inside process() of _on_segment_ready.                         *)
(***************************************************************************)
\* A transcribe step that goes on with an empty transcription when the call
\* fails.
process_audio_transcribe_lenient(w, responses) ==
  /\ w \in DOMAIN workers
  /\ workers[w].pc = "transcribe"
  /\ \E r \in responses :
       /\ calls' = Append(calls, Call("transcribe", w, "", workers[w].hint, "", r.kind))
       /\ workers' =
            [workers EXCEPT
               ![w].pc = "diarize",
               ![w].transcription =
                  IF r.kind = "ok"
                    THEN whisper_transcribe(r.body, workers[w].hint)
                    ELSE NoTranscription]
  /\ UNCHANGED <<tts_enabled, spoken, listening, handled, config, processing, segment_ready, nemitted, arrivals, signals>>
  /\ UNCHANGED <<recVars, regVars>>

\* Step 1: transcribe.
process_audio_transcribe(w, responses) ==
  /\ w \in DOMAIN workers
  /\ workers[w].pc = "transcribe"
  /\ \E r \in responses :
       /\ calls' = Append(calls, Call("transcribe", w, "", workers[w].hint, "", r.kind))
       /\ workers' =
            IF r.kind = "ok"
              THEN [workers EXCEPT
                      ![w].pc = "diarize",
                      ![w].transcription = whisper_transcribe(r.body, workers[w].hint)]
              ELSE [workers EXCEPT
                      ![w].pc = "except_api",
                      ![w].exc = APIErrorMessage("Transcription", r.kind)]
  /\ UNCHANGED <<tts_enabled, spoken, listening, handled, config, processing, segment_ready, nemitted, arrivals, signals>>
  /\ UNCHANGED <<recVars, regVars>>

\* A diarize step without the fallback: the APIError leaves process_audio.
process_audio_diarize_fatal(w, responses) ==
  /\ w \in DOMAIN workers
  /\ workers[w].pc = "diarize"
  /\ \E r \in responses :
       /\ calls' = Append(calls, Call("diarize", w, "", "", "", r.kind))
       /\ workers' =
            IF r.kind = "ok"
              THEN [workers EXCEPT
                      ![w].pc = "merge",
                      ![w].idx = 1,
                      ![w].results = <<>>,
                      ![w].diarization_segments = r.segments]
              ELSE [workers EXCEPT
                      ![w].pc = "except_api",
                      ![w].exc = APIErrorMessage("Diarization", r.kind)]
  /\ UNCHANGED <<tts_enabled, spoken, listening, handled, config, processing, segment_ready, nemitted, arrivals, signals>>
  /\ UNCHANGED <<recVars, regVars>>

\* Step 2: diarize, with the fallback on APIError.
process_audio_diarize(w, responses) ==
  /\ w \in DOMAIN workers
  /\ workers[w].pc = "diarize"
  /\ \E r \in responses :
       /\ calls' = Append(calls, Call("diarize", w, "", "", "", r.kind))
       /\ workers' =
            [workers EXCEPT
               ![w].pc = "merge",
               ![w].idx = 1,
               ![w].results = <<>>,
               ![w].diarization_segments =
                  IF r.kind = "ok"
                    THEN r.segments
                    ELSE FallbackDiarization(workers[w].transcription)]
  /\ UNCHANGED <<tts_enabled, spoken, listening, handled, config, processing, segment_ready, nemitted, arrivals, signals>>
  /\ UNCHANGED <<recVars, regVars>>

\* A merge that isolates a failed translation: the span is kept with its
\* text untranslated and the loop goes on.
process_audio_merge_isolating(w, outcomes) ==
  /\ w \in DOMAIN workers
  /\ workers[w].pc = "merge"
  /\ workers[w].idx <= Len(workers[w].transcription.segments)
  /\ LET seg == workers[w].transcription.segments[workers[w].idx]
         found == FindSpeaker(seg, workers[w].diarization_segments, 1)
         detected_lang == workers[w].transcription.language
         tgt == TranslateTarget(detected_lang, config)
     IN \/ /\ found.raised
           /\ workers' = [workers EXCEPT ![w].pc = "finally", ![w].exc = KeyError]
           /\ UNCHANGED calls
        \/ /\ ~found.raised
           /\ \E o \in outcomes :
                /\ calls' = Append(calls, Call("translate", w, seg.text, detected_lang, tgt, o))
                /\ workers' =
                     [workers EXCEPT
                        ![w].idx = @ + 1,
                        ![w].results = AppendResult(@,
                           Utterance(seg,
                                     translate_result(o, seg.text, detected_lang, tgt),
                                     found.speaker_id, detected_lang))]
  /\ UNCHANGED <<tts_enabled, spoken, listening, handled, config, processing, segment_ready, nemitted, arrivals, signals>>
  /\ UNCHANGED <<recVars, regVars>>

\* Steps 3 and 4 for the span at idx: find its speaker, translate it, append
\* the result; a KeyError or an APIError leaves the loop.
process_audio_merge(w, outcomes) ==
  /\ w \in DOMAIN workers
  /\ workers[w].pc = "merge"
  /\ workers[w].idx <= Len(workers[w].transcription.segments)
  /\ LET seg == workers[w].transcription.segments[workers[w].idx]
         found == FindSpeaker(seg, workers[w].diarization_segments, 1)
         detected_lang == workers[w].transcription.language
         tgt == TranslateTarget(detected_lang, config)
     IN \/ /\ found.raised
           /\ workers' = [workers EXCEPT ![w].pc = "finally", ![w].exc = KeyError]
           /\ UNCHANGED calls
        \/ /\ ~found.raised
           /\ \E o \in outcomes :
                /\ calls' = Append(calls, Call("translate", w, seg.text, detected_lang, tgt, o))
                /\ workers' =
                     IF o \in Failures
                       THEN [workers EXCEPT
                               ![w].pc = "except_api",
                               ![w].exc = APIErrorMessage("Translation", o)]
                       ELSE [workers EXCEPT
                               ![w].idx = @ + 1,
                               ![w].results = AppendResult(@,
                                  Utterance(seg,
                                            translate_result(o, seg.text, detected_lang, tgt),
                                            found.speaker_id, detected_lang))]
  /\ UNCHANGED <<tts_enabled, spoken, listening, handled, config, processing, segment_ready, nemitted, arrivals, signals>>
  /\ UNCHANGED <<recVars, regVars>>

Signal(name, w, results, error) ==
  [signal |-> name, worker |-> w, results |-> results, error |-> error]

\* process_audio returns its list and process() emits transcription_done.
process_return(w) ==
  /\ w \in DOMAIN workers
  /\ workers[w].pc = "merge"
  /\ workers[w].idx > Len(workers[w].transcription.segments)
  /\ signals' = Append(signals, Signal("transcription_done", w, workers[w].results, NoError))
  /\ workers' = [workers EXCEPT ![w].pc = "finally"]
  /\ UNCHANGED <<tts_enabled, spoken, listening, handled, config, processing, segment_ready, nemitted, arrivals, calls>>
  /\ UNCHANGED <<recVars, regVars>>

\* `except APIError as e`: process() emits error_occurred.
process_except(w) ==
  /\ w \in DOMAIN workers
  /\ workers[w].pc = "except_api"
  /\ signals' = Append(signals, Signal("error_occurred", w, <<>>, workers[w].exc))
  /\ workers' = [workers EXCEPT ![w].pc = "finally"]
  /\ UNCHANGED <<tts_enabled, spoken, listening, handled, config, processing, segment_ready, nemitted, arrivals, calls>>
  /\ UNCHANGED <<recVars, regVars>>

\* A clean-up written as `else`: the flag is cleared only when process_audio
\* returned.
process_finally_else(w) ==
  /\ w \in DOMAIN workers
  /\ workers[w].pc = "finally"
  /\ processing' = (workers[w].exc # NoError)
  /\ workers' = [workers EXCEPT ![w].pc = "dead"]
  /\ UNCHANGED <<tts_enabled, spoken, listening, handled, config, segment_ready, nemitted, arrivals, calls, signals>>
  /\ UNCHANGED <<recVars, regVars>>

\* `finally`: the flag is cleared and the thread ends.
process_finally(w) ==
  /\ w \in DOMAIN workers
  /\ workers[w].pc = "finally"
  /\ processing' = FALSE
  /\ workers' = [workers EXCEPT ![w].pc = "dead"]
  /\ UNCHANGED <<tts_enabled, spoken, listening, handled, config, segment_ready, nemitted, arrivals, calls, signals>>
  /\ UNCHANGED <<recVars, regVars>>

(***************************************************************************)
(* recorder.py: AudioRecorder.                                             *)
(***************************************************************************)
\* int(self.voice_timeout * self.sample_rate / self.chunk_size)
FramesForTimeout(cfg) == (cfg.voice_timeout * SampleRate) \div (1000 * ChunkSize)

\* A level that stops at 1.0.
Level_clamped(data, cfg) ==
  IF data.amp * cfg.gain > 100 * FullScale THEN 100 * FullScale ELSE data.amp * cfg.gain

\* np.abs(samples * self.gain).mean() / 32768.0, times 100 * FullScale
Level(data, cfg) == data.amp * cfg.gain

\* A test that takes a level on the threshold for voice.
IsVoice_atleast(lvl, cfg) == lvl >= cfg.silence_threshold * FullScale

\* level > self.silence_threshold
IsVoice(lvl, cfg) == lvl > cfg.silence_threshold * FullScale

\* self._frames[:-n]; in Python [:-0] is [:0], the empty list
DropLast(buffer, n) ==
  IF n = 0 THEN <<>>
  ELSE IF n >= Len(buffer) THEN <<>>
  ELSE SubSeq(buffer, 1, Len(buffer) - n)

\* _frames_to_wav: the frames joined behind a header with the rate
frames_to_wav(buffer) == [rate |-> SampleRate, data |-> buffer]

NoFrame == [n |-> 0, amp |-> 0]

\* A thread entering _continuous_loop.
NewLoop(cfg) ==
  [pc |-> "test", silence_frames |-> 0,
   frames_for_timeout |-> FramesForTimeout(cfg),
   data |-> NoFrame, entered |-> FALSE, raised |-> FALSE]

LevelEvent(t, data, lvl) ==
  [kind |-> "level", loop |-> t, frame |-> data.n, level |-> lvl,
   wav |-> frames_to_wav(<<>>)]
SegmentEvent(t, data, wav) ==
  [kind |-> "segment", loop |-> t, frame |-> data.n, level |-> 0, wav |-> wav]

\* start_continuous up to the opening of the stream; it returns at once when
\* the recorder is recording.
start_continuous_begin(limit) ==
  /\ gui = "idle"
  /\ Len(loops) < limit
  /\ IF recording
       THEN UNCHANGED <<pyaudio, recording, frames, voice_active, gui>>
       ELSE /\ pyaudio' = TRUE
            /\ recording' = TRUE
            /\ frames' = <<>>
            /\ voice_active' = FALSE
            /\ gui' = "open"
  /\ UNCHANGED <<enrollment, rec_config, thread, stream, level, loops, source, events>>
  /\ UNCHANGED <<appVars, regVars>>

\* self._pyaudio.open(...): the stream opens and the thread is started, or
\* the open raises and the recorder is left not recording.
start_continuous_open ==
  /\ gui = "open"
  /\ \/ /\ stream' = TRUE
        /\ loops' = Append(loops, NewLoop(rec_config))
        /\ thread' = Len(loops) + 1
        /\ UNCHANGED recording
     \/ /\ recording' = FALSE
        /\ UNCHANGED <<stream, loops, thread>>
  /\ gui' = "idle"
  /\ UNCHANGED <<pyaudio, enrollment, rec_config, frames, voice_active, level, source, events>>
  /\ UNCHANGED <<appVars, regVars>>

\* `while self._recording:` and the entry into self._stream.read
continuous_loop_test(t) ==
  /\ t \in DOMAIN loops
  /\ loops[t].pc = "test"
  /\ loops' = [loops EXCEPT
                 ![t].pc = IF recording THEN "read" ELSE "exit",
                 ![t].entered = recording /\ stream,
                 ![t].raised = FALSE]
  /\ UNCHANGED <<pyaudio, enrollment, rec_config, recording, thread, stream, frames, voice_active,
                 level, gui, source, events>>
  /\ UNCHANGED <<appVars, regVars>>

\* A read whose except clause starts the count of silent frames again.
continuous_loop_read_resetting(t, amplitudes) ==
  /\ t \in DOMAIN loops
  /\ loops[t].pc = "read"
  /\ \/ /\ loops[t].entered
        /\ Len(source) < MaxFrames
        /\ \E a \in amplitudes :
             LET data == [n |-> Len(source) + 1, amp |-> a] IN
               /\ source' = Append(source, data)
               /\ loops' = [loops EXCEPT ![t].pc = "body", ![t].data = data]
     \/ /\ loops' = [loops EXCEPT ![t].pc = "test", ![t].raised = TRUE,
                                   ![t].silence_frames = 0]
        /\ UNCHANGED source
  /\ UNCHANGED <<pyaudio, enrollment, rec_config, recording, thread, stream, frames, voice_active,
                 level, gui, events>>
  /\ UNCHANGED <<appVars, regVars>>

\* self._stream.read returns a frame, or raises and the loop continues.  With
\* no stream the call raises; a read entered on a stream that was closed
\* under it may raise or still return its frame.  `raised` tells that the loop
\* is back at its test through the `continue` of the except clause.
continuous_loop_read(t, amplitudes) ==
  /\ t \in DOMAIN loops
  /\ loops[t].pc = "read"
  /\ \/ /\ loops[t].entered
        /\ Len(source) < MaxFrames
        /\ \E a \in amplitudes :
             LET data == [n |-> Len(source) + 1, amp |-> a] IN
               /\ source' = Append(source, data)
               /\ loops' = [loops EXCEPT ![t].pc = "body", ![t].data = data]
     \/ /\ loops' = [loops EXCEPT ![t].pc = "test", ![t].raised = TRUE]
        /\ UNCHANGED source
  /\ UNCHANGED <<pyaudio, enrollment, rec_config, recording, thread, stream, frames, voice_active,
                 level, gui, events>>
  /\ UNCHANGED <<appVars, regVars>>

\* A body that starts a new buffer when the voice comes back after silent
\* frames.
continuous_loop_body_restarting(t) ==
  /\ t \in DOMAIN loops
  /\ loops[t].pc = "body"
  /\ LET data == loops[t].data
         lvl == Level(data, rec_config)
         is_voice == IsVoice(lvl, rec_config)
         n == loops[t].frames_for_timeout
         silent == loops[t].silence_frames + 1
         buffered == Append(frames, data)
         kept == IF Len(buffered) > n THEN DropLast(buffered, n) ELSE buffered
     IN /\ level' = lvl
        /\ IF is_voice
             THEN /\ voice_active' = TRUE
                  /\ frames' = Append(IF voice_active /\ loops[t].silence_frames = 0
                                          THEN frames ELSE <<>>, data)
                  /\ loops' = [loops EXCEPT ![t].pc = "test", ![t].silence_frames = 0]
                  /\ events' = Append(events, LevelEvent(t, data, lvl))
           ELSE IF voice_active
             THEN IF silent >= n
                    THEN /\ voice_active' = FALSE
                         /\ frames' = <<>>
                         /\ loops' = [loops EXCEPT ![t].pc = "test", ![t].silence_frames = 0]
                         /\ events' =
                              IF kept # <<>>
                                THEN events \o << LevelEvent(t, data, lvl),
                                                  SegmentEvent(t, data, frames_to_wav(kept)) >>
                                ELSE Append(events, LevelEvent(t, data, lvl))
                    ELSE /\ frames' = buffered
                         /\ loops' = [loops EXCEPT ![t].pc = "test", ![t].silence_frames = silent]
                         /\ events' = Append(events, LevelEvent(t, data, lvl))
                         /\ UNCHANGED voice_active
           ELSE /\ loops' = [loops EXCEPT ![t].pc = "test"]
                /\ events' = Append(events, LevelEvent(t, data, lvl))
                /\ UNCHANGED <<voice_active, frames>>
  /\ UNCHANGED <<pyaudio, enrollment, rec_config, recording, thread, stream, gui, source>>
  /\ UNCHANGED <<appVars, regVars>>

\* The body of the loop for the frame read: level, level_callback, voice
\* activity detection and, at the timeout, segment_callback.
continuous_loop_body(t) ==
  /\ t \in DOMAIN loops
  /\ loops[t].pc = "body"
  /\ LET data == loops[t].data
         lvl == Level(data, rec_config)
         is_voice == IsVoice(lvl, rec_config)
         n == loops[t].frames_for_timeout
         silent == loops[t].silence_frames + 1
         buffered == Append(frames, data)
         kept == IF Len(buffered) > n THEN DropLast(buffered, n) ELSE buffered
     IN /\ level' = lvl
        /\ IF is_voice
             THEN /\ voice_active' = TRUE
                  /\ frames' = Append(IF voice_active THEN frames ELSE <<>>, data)
                  /\ loops' = [loops EXCEPT ![t].pc = "test", ![t].silence_frames = 0]
                  /\ events' = Append(events, LevelEvent(t, data, lvl))
           ELSE IF voice_active
             THEN IF silent >= n
                    THEN /\ voice_active' = FALSE
                         /\ frames' = <<>>
                         /\ loops' = [loops EXCEPT ![t].pc = "test", ![t].silence_frames = 0]
                         /\ events' =
                              IF kept # <<>>
                                THEN events \o << LevelEvent(t, data, lvl),
                                                  SegmentEvent(t, data, frames_to_wav(kept)) >>
                                ELSE Append(events, LevelEvent(t, data, lvl))
                    ELSE /\ frames' = buffered
                         /\ loops' = [loops EXCEPT ![t].pc = "test", ![t].silence_frames = silent]
                         /\ events' = Append(events, LevelEvent(t, data, lvl))
                         /\ UNCHANGED voice_active
           ELSE /\ loops' = [loops EXCEPT ![t].pc = "test"]
                /\ events' = Append(events, LevelEvent(t, data, lvl))
                /\ UNCHANGED <<voice_active, frames>>
  /\ UNCHANGED <<pyaudio, enrollment, rec_config, recording, thread, stream, gui, source>>
  /\ UNCHANGED <<appVars, regVars>>

\* stop: the flag is cleared, then the thread is joined.
stop_begin ==
  /\ gui = "idle"
  /\ recording' = FALSE
  /\ gui' = "join"
  /\ UNCHANGED <<pyaudio, enrollment, rec_config, thread, stream, frames, voice_active, level, loops,
                 source, events>>
  /\ UNCHANGED <<appVars, regVars>>

\* The join returns, because the thread has left the loop or because the
\* second is over while the thread is inside read; the stream is closed.
stop_end ==
  /\ gui = "join"
  /\ thread # 0 => loops[thread].pc \in {"exit", "read"}
  /\ thread' = 0
  /\ stream' = FALSE
  /\ gui' = "idle"
  /\ UNCHANGED <<pyaudio, enrollment, rec_config, recording, frames, voice_active, level, loops,
                 source, events>>
  /\ UNCHANGED <<appVars, regVars>>

\* int(duration * self.sample_rate / self.chunk_size), duration in ms
NumChunks(duration) == (duration * SampleRate) \div (1000 * ChunkSize)

\* record_for_enrollment up to its loop: the stream of its own is opened and
\* num_chunks computed, or the open raises and b"" is returned.
record_for_enrollment_open(durations) ==
  /\ enrollment.pc = "idle"
  /\ \E duration \in durations :
       \/ enrollment' = [enrollment EXCEPT !.pc = "read", !.duration = duration,
                                           !.num_chunks = NumChunks(duration)]
       \/ enrollment' = [enrollment EXCEPT !.pc = "done", !.duration = duration,
                                           !.result = EmptyBytes]
  /\ pyaudio' = TRUE
  /\ UNCHANGED <<rec_config, recording, thread, stream, frames, voice_active, level,
                 loops, gui, source, events>>
  /\ UNCHANGED <<appVars, regVars>>

\* A capture that keeps the frames above the silence threshold only.
record_for_enrollment_read_voiced(amplitudes) ==
  /\ enrollment.pc = "read"
  /\ Len(enrollment.reads) < enrollment.num_chunks
  /\ \E a \in amplitudes :
       LET data == [n |-> Len(enrollment.reads) + 1, amp |-> a] IN
         enrollment' = [enrollment EXCEPT
                          !.reads = Append(@, data),
                          !.frames = IF IsVoice(Level(data, rec_config), rec_config)
                                       THEN Append(@, data) ELSE @]
  /\ UNCHANGED <<pyaudio, rec_config, recording, thread, stream, frames, voice_active, level,
                 loops, gui, source, events>>
  /\ UNCHANGED <<appVars, regVars>>

\* One turn of `for _ in range(num_chunks)`: stream.read returns a frame,
\* which is appended, or raises, and b"" is returned.
record_for_enrollment_read(amplitudes) ==
  /\ enrollment.pc = "read"
  /\ Len(enrollment.reads) < enrollment.num_chunks
  /\ \/ \E a \in amplitudes :
          LET data == [n |-> Len(enrollment.reads) + 1, amp |-> a] IN
            enrollment' = [enrollment EXCEPT !.reads = Append(@, data),
                                                !.frames = Append(@, data)]
     \/ enrollment' = [enrollment EXCEPT !.pc = "done", !.result = EmptyBytes]
  /\ UNCHANGED <<pyaudio, rec_config, recording, thread, stream, frames, voice_active, level,
                 loops, gui, source, events>>
  /\ UNCHANGED <<appVars, regVars>>

\* The loop is over: the stream is closed and the frames are returned as WAV.
record_for_enrollment_return ==
  /\ enrollment.pc = "read"
  /\ Len(enrollment.reads) >= enrollment.num_chunks
  /\ enrollment' = [enrollment EXCEPT !.pc = "done",
                                      !.result = frames_to_wav(enrollment.frames)]
  /\ UNCHANGED <<pyaudio, rec_config, recording, thread, stream, frames, voice_active, level,
                 loops, gui, source, events>>
  /\ UNCHANGED <<appVars, regVars>>

(***************************************************************************)
(* main.py: listening on and off, and the handlers of the worker signals.  *)
(***************************************************************************)
\* The calls of segment_callback made by the capture loops so far.
SegmentCalls == Len(SelectSeq(events, LAMBDA e : e.kind = "segment"))

\* segment_callback as _start_listening installs it: each call of the
\* capture loop emits segment_ready, delivered to the GUI thread in order.
segment_ready_emit == segment_callback(SegmentCalls)

\* MainWindow._start_listening up to the opening of the stream: the flag is
\* set, the languages are taken from the two selectors, and
\* start_continuous is entered.
start_listening(limit, cfgs) ==
  /\ gui = "idle"
  /\ ~listening
  /\ Len(loops) < limit
  /\ listening' = TRUE
  /\ config' \in cfgs
  /\ IF recording
       THEN UNCHANGED <<pyaudio, recording, frames, voice_active, gui>>
       ELSE /\ pyaudio' = TRUE
            /\ recording' = TRUE
            /\ frames' = <<>>
            /\ voice_active' = FALSE
            /\ gui' = "open"
  /\ UNCHANGED <<tts_enabled, spoken, handled, processing, segment_ready, nemitted, arrivals,
                 workers, calls, signals>>
  /\ UNCHANGED <<enrollment, rec_config, thread, stream, level, loops, source, events>>
  /\ UNCHANGED regVars

\* A stop that also gives up the segment being processed: the busy flag is
\* cleared with the listening flag.
stop_listening_cancelling ==
  /\ gui = "idle"
  /\ listening
  /\ listening' = FALSE
  /\ recording' = FALSE
  /\ processing' = FALSE
  /\ gui' = "join"
  /\ UNCHANGED <<tts_enabled, spoken, handled, config, segment_ready, nemitted, arrivals,
                 workers, calls, signals>>
  /\ UNCHANGED <<pyaudio, enrollment, rec_config, thread, stream, frames, voice_active, level, loops,
                 source, events>>
  /\ UNCHANGED regVars

\* MainWindow._stop_listening up to the join inside recorder.stop.
stop_listening ==
  /\ gui = "idle"
  /\ listening
  /\ listening' = FALSE
  /\ recording' = FALSE
  /\ gui' = "join"
  /\ UNCHANGED <<tts_enabled, spoken, handled, config, processing, segment_ready, nemitted, arrivals,
                 workers, calls, signals>>
  /\ UNCHANGED <<pyaudio, enrollment, rec_config, thread, stream, frames, voice_active, level, loops,
                 source, events>>
  /\ UNCHANGED regVars

\* A quit that releases the device before it stops the capture.
quit_begin_releasing ==
  /\ gui = "idle"
  /\ pyaudio' = FALSE
  /\ IF listening
       THEN /\ listening' = FALSE
            /\ recording' = FALSE
            /\ gui' = "quit_join"
       ELSE /\ gui' = "cleanup"
            /\ UNCHANGED <<listening, recording>>
  /\ UNCHANGED <<tts_enabled, spoken, handled, config, processing, segment_ready, nemitted,
                 arrivals, workers, calls, signals>>
  /\ UNCHANGED <<enrollment, rec_config, thread, stream, frames, voice_active, level,
                 loops, source, events>>
  /\ UNCHANGED regVars

\* MainWindow._quit up to the join inside recorder.stop: _stop_listening
\* returns at once when the window is not listening.
quit_begin ==
  /\ gui = "idle"
  /\ IF listening
       THEN /\ listening' = FALSE
            /\ recording' = FALSE
            /\ gui' = "quit_join"
       ELSE /\ gui' = "cleanup"
            /\ UNCHANGED <<listening, recording>>
  /\ UNCHANGED <<tts_enabled, spoken, handled, config, processing, segment_ready, nemitted,
                 arrivals, workers, calls, signals>>
  /\ UNCHANGED <<pyaudio, enrollment, rec_config, thread, stream, frames, voice_active, level,
                 loops, source, events>>
  /\ UNCHANGED regVars

\* The join of _quit's _stop_listening returns, as in stop, and the stream
\* is closed.
quit_stop_end ==
  /\ gui = "quit_join"
  /\ thread # 0 => loops[thread].pc \in {"exit", "read"}
  /\ thread' = 0
  /\ stream' = FALSE
  /\ gui' = "cleanup"
  /\ UNCHANGED <<pyaudio, enrollment, rec_config, recording, frames, voice_active, level, loops,
                 source, events>>
  /\ UNCHANGED <<appVars, regVars>>

\* recorder.cleanup: stop once more, up to its join.
cleanup_stop_begin ==
  /\ gui = "cleanup"
  /\ recording' = FALSE
  /\ gui' = "cleanup_join"
  /\ UNCHANGED <<pyaudio, enrollment, rec_config, thread, stream, frames, voice_active, level,
                 loops, source, events>>
  /\ UNCHANGED <<appVars, regVars>>

\* The stop of recorder.cleanup returns: the thread, if there is one, is
\* joined or given up and the stream, if there is one, is closed.
cleanup_stop_end ==
  /\ gui = "cleanup_join"
  /\ thread # 0 => loops[thread].pc \in {"exit", "read"}
  /\ thread' = 0
  /\ stream' = FALSE
  /\ gui' = "terminate"
  /\ UNCHANGED <<pyaudio, enrollment, rec_config, recording, frames, voice_active, level, loops,
                 source, events>>
  /\ UNCHANGED <<appVars, regVars>>

\* recorder.cleanup after its stop: self._pyaudio.terminate(); then the rest
\* of _quit: the player, the hotkeys, config.save and QApplication.quit.
cleanup_terminate ==
  /\ gui = "terminate"
  /\ pyaudio' = FALSE
  /\ gui' = "quit"
  /\ UNCHANGED <<enrollment, rec_config, recording, thread, stream, frames, voice_active,
                 level, loops, source, events>>
  /\ UNCHANGED <<appVars, regVars>>

\* MainWindow._on_error for the next signal of the bridge: the status bar
\* shows the error, and a timer puts it back to the listening state.
on_error ==
  /\ handled < Len(signals)
  /\ signals[handled + 1].signal = "error_occurred"
  /\ handled' = handled + 1
  /\ UNCHANGED <<tts_enabled, spoken, listening, config, processing, segment_ready, nemitted, arrivals,
                 workers, calls, signals>>
  /\ UNCHANGED <<recVars, regVars>>

\* str.lower on the language codes the model feeds in.
LowerLang(lang) == IF lang = "EN" THEN "en" ELSE lang

\* `detected_lang == "en" and self.config.tts_enabled and result["translation"]`
SpeaksTranslation(result, enabled) ==
  /\ LowerLang(DictGet(result, "language", "")) = "en"
  /\ enabled
  /\ result.translation # <<>>

\* self._speak_translation(result["translation"], "hu")
SpeakCall(result) ==
  [text |-> result.translation, language |-> "hu", utterance |-> result]

\* MainWindow._toggle_tts: the TTS button is clicked.
toggle_tts ==
  /\ tts_enabled' = ~tts_enabled
  /\ UNCHANGED <<spoken, listening, handled, config, processing, segment_ready,
                 nemitted, arrivals, workers, calls, signals>>
  /\ UNCHANGED <<recVars, regVars>>

\* MainWindow._on_transcription_done for the next signal of the bridge: each
\* result is added to the transcript and, when the test holds, spoken.
on_transcription_done ==
  /\ handled < Len(signals)
  /\ signals[handled + 1].signal = "transcription_done"
  /\ handled' = handled + 1
  /\ LET results == signals[handled + 1].results
         said == SelectSeq(results, LAMBDA result : SpeaksTranslation(result, tts_enabled))
     IN spoken' = spoken \o [i \in DOMAIN said |-> SpeakCall(said[i])]
  /\ UNCHANGED <<tts_enabled, listening, config, processing, segment_ready, nemitted, arrivals,
                 workers, calls, signals>>
  /\ UNCHANGED <<recVars, regVars>>

(***************************************************************************)
(* docker/diarization/app.py: the registry of speaker profiles.            *)
(***************************************************************************)
\* f"speaker_{n}"
SpeakerId(n) == <<"speaker", n>>

\* f"{speaker_id}.npy"
EmbFile(speaker_id) == <<speaker_id, "npy">>

\* The speaker_id -1 of an Unknown answer.
UnknownId == <<"", -1>>

\* str.lower on the values of the is_user form field
Lower(str) == IF str \in {"True", "TRUE", "true"} THEN "true" ELSE str

\* A dict, which keeps its keys in insertion order, as the sequence of its
\* items: d[key] = value keeps the place of a key already there.
Keys(d) == {d[i].key : i \in DOMAIN d}
ItemSet(d, key, value) ==
  IF key \in Keys(d)
    THEN [i \in DOMAIN d |-> IF d[i].key = key THEN [key |-> key, value |-> value] ELSE d[i]]
    ELSE Append(d, [key |-> key, value |-> value])

\* A removal that drops the oldest item, whatever the key.
ItemDel_first(d, key) == Tail(d)

\* del d[key]
ItemDel(d, key) == SelectSeq(d, LAMBDA item : item.key # key)

\* The audio samples sent to the service and the vector the embedding model
\* gives for each: "bob" is at cosine 0.7 of "ann", "eve" at -1, "amy" at
\* 0.8; "noise" is not an audio file and makes sf.read raise.
Embedding(audio) ==
  CASE audio = "ann" -> <<1, 0, 0, 0>>
    [] audio = "amy" -> <<4, 3, 0, 0>>
    [] audio = "bob" -> <<7, 1, 5, 5>>
    [] audio = "eve" -> <<-1, 0, 0, 0>>
Readable(audio) == audio # "noise"

\* np.dot(a, b)
Dot(a, b) == a[1] * b[1] + a[2] * b[2] + a[3] * b[3] + a[4] * b[4]

\* The cosine similarity dot(a, b) / (|a| |b|), kept exact as the dot
\* product d and the product n of the squared norms: the score is d / sqrt(n).
Cosine(a, b) == [d |-> Dot(a, b), n |-> Dot(a, a) * Dot(b, b)]

\* A comparison that lets a later profile of the same score win: s >= t.
Exceeds_orequal(s, t) ==
  IF s.d >= 0 /\ t.d >= 0 THEN s.d * s.d * t.n >= t.d * t.d * s.n
  ELSE IF s.d >= 0 THEN TRUE
  ELSE IF t.d >= 0 THEN FALSE
  ELSE s.d * s.d * t.n <= t.d * t.d * s.n

\* s > t on such scores, by signs and squares.
Exceeds(s, t) ==
  IF s.d >= 0 /\ t.d >= 0 THEN s.d * s.d * t.n > t.d * t.d * s.n
  ELSE IF s.d >= 0 THEN TRUE
  ELSE IF t.d >= 0 THEN FALSE
  ELSE s.d * s.d * t.n < t.d * t.d * s.n

\* best_score = -1, threshold = 0.7, confidence 0.0
MinusOne == [d |-> -1, n |-> 1]
Threshold == [d |-> 7, n |-> 100]
Zero == [d |-> 0, n |-> 1]

\* The loop of identify from item i on: best is the index of the best match
\* so far (0 for None) and best_score its score.
RECURSIVE FindClosest(_, _, _, _, _)
FindClosest(embedding, profiles, i, best, best_score) ==
  IF i > Len(profiles)
    THEN [best_match |-> best, best_score |-> best_score]
    ELSE LET score == Cosine(embedding, profiles[i].value.embedding) IN
         IF Exceeds(score, best_score)
           THEN FindClosest(embedding, profiles, i + 1, i, score)
           ELSE FindClosest(embedding, profiles, i + 1, best, best_score)

\* One profile of the dict.
Profile(name, embedding, is_user) ==
  [name |-> name, embedding |-> embedding, is_user |-> is_user]

\* The files written by the loop of save_speaker_embeddings and the index
\* it dumps afterwards.
SavedFiles(profiles, files) ==
  {f \in files : \A i \in DOMAIN profiles : f.file # EmbFile(profiles[i].key)}
    \cup {[file |-> EmbFile(profiles[i].key),
           embedding |-> profiles[i].value.embedding] : i \in DOMAIN profiles}
\* An index that leaves the is_user mark out, so that a load takes the default.
SavedIndex_unmarked(profiles) ==
  [exists |-> TRUE,
   entries |-> [i \in DOMAIN profiles |->
                  [key |-> profiles[i].key,
                   value |-> [name |-> profiles[i].value.name,
                              embedding_file |-> EmbFile(profiles[i].key),
                              is_user |-> FALSE]]]]

\* The index that save_speaker_embeddings dumps.
SavedIndex(profiles) ==
  [exists |-> TRUE,
   entries |-> [i \in DOMAIN profiles |->
                  [key |-> profiles[i].key,
                   value |-> [name |-> profiles[i].value.name,
                              embedding_file |-> EmbFile(profiles[i].key),
                              is_user |-> profiles[i].value.is_user]]]]

\* How save_speaker_embeddings can end: it returns, np.save raises on the
\* first vector (when there is one), or the index cannot be opened after the
\* vectors were written.
DiskOutcomes == {"ok", "save_raises", "open_raises"}

\* save_speaker_embeddings on the dict `profiles`
save_speaker_embeddings(profiles, disk) ==
  /\ disk = "save_raises" => profiles # <<>>
  /\ disk # "ok" => disk_failures < MaxDiskFailures
  /\ emb_files' = IF disk = "save_raises" THEN emb_files
                  ELSE SavedFiles(profiles, emb_files)
  /\ index_file' = IF disk = "ok" THEN SavedIndex(profiles) ELSE index_file
  /\ disk_failures' = IF disk = "ok" THEN disk_failures ELSE disk_failures + 1

\* load_speaker_embeddings into an empty dict: the entries of the index whose
\* vector file exists, in the order of the index.
FileOf(files, name) == CHOOSE f \in files : f.file = name
Loaded(index, files) ==
  LET present == SelectSeq(index.entries,
                   LAMBDA e : \E f \in files : f.file = e.value.embedding_file)
  IN [i \in DOMAIN present |->
        [key |-> present[i].key,
         value |-> Profile(present[i].value.name,
                           FileOf(files, present[i].value.embedding_file).embedding,
                           present[i].value.is_user)]]

\* The service is started again: load_models runs load_speaker_embeddings.
load_models ==
  /\ speaker_embeddings' = Loaded(index_file, emb_files)
  /\ reply' = [op |-> "startup", status |-> 0]
  /\ UNCHANGED <<index_file, emb_files, removed, ever_removed, disk_failures>>
  /\ UNCHANGED <<appVars, recVars>>

\* speaker_id = f"speaker_{len(speaker_embeddings)}"
NewSpeakerId(profiles) == SpeakerId(Len(profiles))

\* An enroll that puts the profile into the dict, with an empty vector,
\* before it reads the audio.
enroll_speaker_reserving(audios, names, flags, limit, disks) ==
  /\ \E file \in audios, name \in names, is_user \in flags :
       LET is_user_bool == Lower(is_user) = "true"
           speaker_id == IF is_user_bool THEN SpeakerId(0)
                         ELSE NewSpeakerId(speaker_embeddings)
           embedding == IF Readable(file) THEN Embedding(file) ELSE <<0, 0, 0, 0>>
           stored == ItemSet(speaker_embeddings, speaker_id,
                             Profile(name, embedding, is_user_bool))
       IN /\ Len(stored) <= limit
          /\ speaker_embeddings' = stored
          /\ removed' = removed \ {speaker_id}
          /\ UNCHANGED ever_removed
          /\ IF ~Readable(file)
               THEN /\ reply' = [op |-> "enroll", status |-> 500, file |-> file]
                    /\ UNCHANGED <<index_file, emb_files, disk_failures>>
               ELSE \E disk \in disks :
                      /\ save_speaker_embeddings(stored, disk)
                      /\ reply' = IF disk = "ok"
                                    THEN [op |-> "enroll", status |-> 200, file |-> file,
                                          speaker_id |-> speaker_id, name |-> name,
                                          is_user |-> is_user_bool]
                                    ELSE [op |-> "enroll", status |-> 500, file |-> file]
  /\ UNCHANGED <<appVars, recVars>>

\* POST /enroll
enroll_speaker(audios, names, flags, limit, disks) ==
  /\ \E file \in audios, name \in names, is_user \in flags :
         IF ~Readable(file)
           THEN /\ reply' = [op |-> "enroll", status |-> 500, file |-> file]
                /\ UNCHANGED <<speaker_embeddings, index_file, emb_files, removed,
                               ever_removed, disk_failures>>
           ELSE LET embedding == Embedding(file)
                    is_user_bool == Lower(is_user) = "true"
                    speaker_id == IF is_user_bool THEN SpeakerId(0)
                                  ELSE NewSpeakerId(speaker_embeddings)
                    stored == ItemSet(speaker_embeddings, speaker_id,
                                      Profile(name, embedding, is_user_bool))
                IN /\ Len(stored) <= limit
                   /\ speaker_embeddings' = stored
                   /\ removed' = removed \ {speaker_id}
                   /\ UNCHANGED ever_removed
                   /\ \E disk \in disks :
                        /\ save_speaker_embeddings(stored, disk)
                        /\ reply' = IF disk = "ok"
                                      THEN [op |-> "enroll", status |-> 200, file |-> file,
                                            speaker_id |-> speaker_id, name |-> name,
                                            is_user |-> is_user_bool]
                                      ELSE [op |-> "enroll", status |-> 500, file |-> file]
  /\ UNCHANGED <<appVars, recVars>>

\* A delete that is idempotent: an id that is not there is no error.
NotFound_never(speaker_id, profiles) == FALSE

\* `if speaker_id not in speaker_embeddings`
NotFound(speaker_id, profiles) == speaker_id \notin Keys(profiles)

\* A delete that forgets the disk: the profile leaves the dict only.
delete_speaker_memory_only(ids, disks) ==
  /\ \E speaker_id \in ids :
       IF NotFound(speaker_id, speaker_embeddings)
         THEN /\ reply' = [op |-> "delete", status |-> 404, speaker_id |-> speaker_id]
              /\ UNCHANGED <<speaker_embeddings, removed, ever_removed>>
         ELSE /\ speaker_embeddings' = ItemDel(speaker_embeddings, speaker_id)
              /\ removed' = removed \cup {speaker_id}
              /\ ever_removed' = ever_removed \cup {speaker_id}
              /\ reply' = [op |-> "delete", status |-> 200, speaker_id |-> speaker_id]
  /\ UNCHANGED <<index_file, emb_files, disk_failures>>
  /\ UNCHANGED <<appVars, recVars>>

\* DELETE /speakers/{speaker_id}; an exception of save_speaker_embeddings is
\* not caught and answers 500 with the vector file left in place.
delete_speaker(ids, disks) ==
  /\ \E speaker_id \in ids :
       IF NotFound(speaker_id, speaker_embeddings)
         THEN /\ reply' = [op |-> "delete", status |-> 404, speaker_id |-> speaker_id]
              /\ UNCHANGED <<speaker_embeddings, index_file, emb_files, removed,
                             ever_removed, disk_failures>>
         ELSE LET remaining == ItemDel(speaker_embeddings, speaker_id) IN
              /\ speaker_embeddings' = remaining
              /\ \E disk \in disks :
                   IF disk = "ok"
                     THEN /\ index_file' = SavedIndex(remaining)
                          /\ emb_files' = {f \in SavedFiles(remaining, emb_files) :
                                             f.file # EmbFile(speaker_id)}
                          /\ removed' = removed \cup {speaker_id}
                          /\ ever_removed' = ever_removed \cup {speaker_id}
                          /\ reply' = [op |-> "delete", status |-> 200,
                                       speaker_id |-> speaker_id]
                          /\ UNCHANGED disk_failures
                     ELSE /\ save_speaker_embeddings(remaining, disk)
                          /\ reply' = [op |-> "delete", status |-> 500,
                                       speaker_id |-> speaker_id]
                          /\ UNCHANGED <<removed, ever_removed>>
  /\ UNCHANGED <<appVars, recVars>>

\* A test that lets a score equal to the threshold through: best_score >= threshold.
Identified_atleast(best_score) == ~Exceeds(Threshold, best_score)

\* `best_score > threshold` of the test at the end of identify
Identified(best_score) == Exceeds(best_score, Threshold)

\* An identify that reads the audio before it looks at the registry.
identify_speaker_reading(audios) ==
  /\ \E file \in audios :
       reply' =
         IF ~Readable(file)
           THEN [op |-> "identify", status |-> 500, file |-> file]
         ELSE LET found == FindClosest(Embedding(file), speaker_embeddings, 1, 0, MinusOne)
                  best_match == found.best_match
              IN IF best_match # 0 /\ Identified(found.best_score)
                   THEN [op |-> "identify", status |-> 200, file |-> file,
                         speaker_id |-> speaker_embeddings[best_match].key,
                         speaker_name |-> speaker_embeddings[best_match].value.name,
                         confidence |-> found.best_score,
                         is_user |-> speaker_embeddings[best_match].value.is_user]
                   ELSE [op |-> "identify", status |-> 200, file |-> file,
                         speaker_id |-> UnknownId, speaker_name |-> "Unknown",
                         confidence |-> IF best_match # 0 THEN found.best_score ELSE Zero]
  /\ UNCHANGED <<speaker_embeddings, index_file, emb_files, removed, ever_removed,
                 disk_failures>>
  /\ UNCHANGED <<appVars, recVars>>

\* POST /identify
identify_speaker(audios) ==
  /\ \E file \in audios :
       reply' =
         IF speaker_embeddings = <<>>
           THEN [op |-> "identify", status |-> 200, file |-> file,
                 speaker_id |-> UnknownId, speaker_name |-> "Unknown",
                 confidence |-> Zero]
         ELSE IF ~Readable(file)
           THEN [op |-> "identify", status |-> 500, file |-> file]
         ELSE LET found == FindClosest(Embedding(file), speaker_embeddings, 1, 0, MinusOne)
                  best_match == found.best_match
              IN IF best_match # 0 /\ Identified(found.best_score)
                   THEN [op |-> "identify", status |-> 200, file |-> file,
                         speaker_id |-> speaker_embeddings[best_match].key,
                         speaker_name |-> speaker_embeddings[best_match].value.name,
                         confidence |-> found.best_score,
                         is_user |-> speaker_embeddings[best_match].value.is_user]
                   ELSE [op |-> "identify", status |-> 200, file |-> file,
                         speaker_id |-> UnknownId, speaker_name |-> "Unknown",
                         confidence |-> IF best_match # 0 THEN found.best_score ELSE Zero]
  /\ UNCHANGED <<speaker_embeddings, index_file, emb_files, removed, ever_removed,
                 disk_failures>>
  /\ UNCHANGED <<appVars, recVars>>

(***************************************************************************)
(* Specifications.                                                         *)
(***************************************************************************)
\* The responses the application runs draw from: a transcription of one
\* span or of none, a failed one; a diarization of one span, a malformed
\* one, a failed one.
AppWhisperResponses ==
  { [kind |-> "ok", body |-> [segments |-> << [text |-> "hello", start |-> 2, end |-> 5] >>,
                              text |-> "", language |-> "en", duration |-> 5]],
    [kind |-> "ok", body |-> [segments |-> <<>>, text |-> "", language |-> "hu", duration |-> 5]],
    [kind |-> "timeout", body |-> [duration |-> 0]] }

AppDiarResponses ==
  { [kind |-> "ok", segments |-> << [start |-> 3, end |-> 4, speaker |-> 2] >>],
    [kind |-> "ok", segments |-> << [end |-> 4, speaker |-> 1] >>],
    [kind |-> "status", segments |-> <<>>] }

AppTranslateOutcomes == {"ok", "error"}

Worker(w, whisper, diar, outcomes) ==
  \/ process_audio_transcribe(w, whisper)
  \/ process_audio_diarize(w, diar)
  \/ process_audio_merge(w, outcomes)
  \/ process_return(w)
  \/ process_except(w)
  \/ process_finally(w)

\* The application: segments arrive while workers run.
Next ==
  \/ segment_callback(MaxSegments)
  \/ on_segment_ready
  \/ \E w \in 1..MaxSegments :
       Worker(w, AppWhisperResponses, AppDiarResponses, AppTranslateOutcomes)

Spec == Init /\ [][Next]_vars

\* The application with its worker threads scheduled: a thread that can take
\* a step takes it, the calls to the backends returning or timing out.
SpecLive ==
  /\ Spec
  /\ \A w \in 1..MaxSegments :
       WF_vars(Worker(w, AppWhisperResponses, AppDiarResponses, AppTranslateOutcomes))

\* The responses the pipeline runs draw from.
PipeWhisperResponses == WhisperResponses(MaxSpans)
PipeDiarResponses == DiarResponses(MaxDiar)

\* One segment through the pipeline, over all the responses of the model.
NextPipe ==
  \/ segment_callback(1)
  \/ on_segment_ready
  \/ Worker(1, PipeWhisperResponses, PipeDiarResponses, TranslateOutcomes)

SpecPipe == Init /\ [][NextPipe]_vars

\* One capture session of the recorder, over all its settings: the stream is
\* opened once, the loop runs, stop ends it.
InitSeg == AppInit({[source_language |-> "hu", target_language |-> "en"]}) /\ RecInit(RecConfigs) /\ RegInit

NextSeg ==
  \/ start_continuous_begin(1)
  \/ start_continuous_open
  \/ continuous_loop_test(1)
  \/ continuous_loop_read(1, Amplitudes)
  \/ continuous_loop_body(1)
  \/ stop_begin
  \/ stop_end

SpecSeg == InitSeg /\ [][NextSeg]_vars

\* One listening session of the application: the recorder with a timeout of
\* one frame, the frames it reads, the segments it emits and the workers
\* that process them.
ListenRecConfig == [voice_timeout |-> 100, gain |-> 100, silence_threshold |-> 3]
ListenAmplitudes == {0, 16384}
ListenConfigs == {[source_language |-> "hu", target_language |-> "en"]}
ListenWhisperResponses ==
  { [kind |-> "ok", body |-> [segments |-> << [text |-> "hello", start |-> 2, end |-> 5] >>,
                              text |-> "", language |-> "en", duration |-> 5]],
    [kind |-> "timeout", body |-> [duration |-> 0]] }
ListenDiarResponses ==
  { [kind |-> "ok", segments |-> << [start |-> 3, end |-> 4, speaker |-> 2] >>] }
ListenTranslateOutcomes == {"ok"}

InitListen == AppInit(ListenConfigs) /\ RecInit({ListenRecConfig}) /\ RegInit

NextListen ==
  \/ start_listening(1, ListenConfigs)
  \/ start_continuous_open
  \/ continuous_loop_test(1)
  \/ continuous_loop_read(1, ListenAmplitudes)
  \/ continuous_loop_body(1)
  \/ stop_listening
  \/ stop_end
  \/ segment_ready_emit
  \/ on_segment_ready
  \/ \E w \in 1..MaxSegments :
       Worker(w, ListenWhisperResponses, ListenDiarResponses, ListenTranslateOutcomes)
  \/ on_error
  \/ on_transcription_done

SpecListen == InitListen /\ [][NextListen]_vars

\* One segment through the pipeline and the handler of its result, with the
\* TTS button: the selectors on Hungarian or German to English, a
\* transcription in English (also spelt "EN") or Hungarian or a failed
\* one, and a translation service that answers with a text or an empty one.
SpeakSpans ==
  << [text |-> " szia ", start |-> 0, end |-> 2],
     [text |-> "hello", start |-> 2, end |-> 5] >>
SpeakConfigs ==
  { [source_language |-> "hu", target_language |-> "en"],
    [source_language |-> "de", target_language |-> "en"] }
SpeakWhisperResponses ==
  { [kind |-> "ok",
     body |-> [segments |-> SpeakSpans, text |-> "", language |-> l, duration |-> 5]]
      : l \in {"en", "EN", "hu"} }
    \cup { [kind |-> "timeout", body |-> [duration |-> 0]] }
SpeakDiarResponses ==
  { [kind |-> "ok", segments |-> << [start |-> 0, end |-> 4, speaker |-> 1] >>] }
SpeakTranslateOutcomes == {"ok", "empty"}

InitSpeak == AppInit(SpeakConfigs) /\ RecInit({DefaultRecConfig}) /\ RegInit

NextSpeak ==
  \/ segment_callback(1)
  \/ on_segment_ready
  \/ Worker(1, SpeakWhisperResponses, SpeakDiarResponses, SpeakTranslateOutcomes)
  \/ toggle_tts
  \/ on_transcription_done

SpecSpeak == InitSpeak /\ [][NextSpeak]_vars

\* One listening session of the application that ends with a quit, or a quit
\* with no session.
NextQuit ==
  \/ start_listening(1, ListenConfigs)
  \/ start_continuous_open
  \/ continuous_loop_test(1)
  \/ continuous_loop_read(1, ListenAmplitudes)
  \/ continuous_loop_body(1)
  \/ stop_listening
  \/ stop_end
  \/ segment_ready_emit
  \/ on_segment_ready
  \/ \E w \in 1..MaxSegments :
       Worker(w, ListenWhisperResponses, ListenDiarResponses, ListenTranslateOutcomes)
  \/ quit_begin
  \/ quit_stop_end
  \/ cleanup_stop_begin
  \/ cleanup_stop_end
  \/ cleanup_terminate

SpecQuit == InitListen /\ [][NextQuit]_vars

\* The recorder started, stopped and started again: two capture sessions
\* with timeouts of one frame and more, the second of which can begin while the
\* thread of the first, given up by the join, is still inside read.
NextRestart ==
  \/ start_continuous_begin(2)
  \/ start_continuous_open
  \/ \E t \in 1..2 :
       \/ continuous_loop_test(t)
       \/ continuous_loop_read(t, ListenAmplitudes)
       \/ continuous_loop_body(t)
  \/ stop_begin
  \/ stop_end

\* The recorder's settings of the sessions that follow each other: timeouts
\* of one frame and more.
RestartRecConfigs ==
  {[voice_timeout |-> 50 * k, gain |-> 100, silence_threshold |-> 3] :
     k \in 2..MaxTimeoutSteps}

InitRestart == AppInit(ListenConfigs) /\ RecInit(RestartRecConfigs) /\ RegInit

SpecRestart == InitRestart /\ [][NextRestart]_vars

\* One capture for an enrollment, over all recorder settings and durations
\* of up to MaxEnrollSteps steps of 50 ms.
EnrollDurations == {50 * k : k \in 0..MaxEnrollSteps}

NextEnroll ==
  \/ record_for_enrollment_open(EnrollDurations)
  \/ record_for_enrollment_read(Amplitudes)
  \/ record_for_enrollment_return

SpecEnroll == InitSeg /\ [][NextEnroll]_vars

\* The diarization service on a disk that works: requests handled one at a
\* time, and restarts.
EnrollAudios == {"ann", "bob", "noise"}
IdentifyAudios == {"ann", "amy", "bob", "eve", "noise"}
SpeakerNames == {"Ann", "Bob"}
IsUserFlags == {"True", "false"}
DeleteIds == {SpeakerId(n) : n \in 0..MaxProfiles} \cup {<<"Speaker", 0>>}

DiskWorks == {"ok"}

NextReg ==
  \/ enroll_speaker(EnrollAudios, SpeakerNames, IsUserFlags, MaxProfiles, DiskWorks)
  \/ identify_speaker(IdentifyAudios)
  \/ delete_speaker(DeleteIds, DiskWorks)
  \/ load_models

InitReg ==
  /\ AppInit({[source_language |-> "hu", target_language |-> "en"]})
  /\ RecInit({DefaultRecConfig})
  /\ RegInit

SpecReg == InitReg /\ [][NextReg]_vars

\* The registry and its files when save_speaker_embeddings can raise.
DiskAudios == {"ann", "bob"}
DiskNames == {"Ann"}

NextDisk ==
  \/ enroll_speaker(DiskAudios, DiskNames, IsUserFlags, MaxProfiles, DiskOutcomes)
  \/ delete_speaker(DeleteIds, DiskOutcomes)
  \/ load_models

SpecDisk == InitReg /\ [][NextDisk]_vars

(***************************************************************************)
(* The claims.                                                             *)
(***************************************************************************)
InProcessAudio(w) == workers[w].pc \in {"transcribe", "diarize", "merge"}
Ended(w) == workers[w].pc \in {"finally", "dead"}

CallsOf(w, service) ==
  SelectSeq(calls, LAMBDA c : c.worker = w /\ c.service = service)
SignalsOf(w, name) ==
  SelectSeq(signals, LAMBDA s : s.worker = w /\ s.signal = name)
FailedCall(w, service) ==
  \E i \in DOMAIN calls :
    /\ calls[i].worker = w
    /\ calls[i].service = service
    /\ calls[i].outcome \in Failures

\* The segments the handler met with the busy flag set.
Dropped == { arrivals[i].audio : i \in {j \in DOMAIN arrivals : arrivals[j].busy} }

\* C1: in every interleaving of segment arrivals and worker steps, at most
\* one worker started by _on_segment_ready is inside process_audio.
C1_SingleFlight ==
  Cardinality({w \in DOMAIN workers : InProcessAudio(w)}) <= 1

\* A second worker is inside process_audio after the first has ended, and a
\* segment arrived while one of them was running.
C1_Witness ==
  /\ Len(workers) >= 2
  /\ workers[1].pc = "dead"
  /\ InProcessAudio(2)
  /\ \E i \in DOMAIN arrivals : arrivals[i].busy

\* C2: a segment handled while the busy flag is set starts no worker, is not
\* kept on the queue and reaches no backend call, now or later; the workers
\* started are exactly the segments handled while the flag was clear.
C2_DropNotQueue ==
  /\ \A w \in DOMAIN workers : workers[w].audio \notin Dropped
  /\ \A i \in DOMAIN calls : calls[i].audio \notin Dropped
  /\ \A i \in DOMAIN segment_ready : segment_ready[i] \notin Dropped
  /\ Len(workers) = Cardinality({i \in DOMAIN arrivals : ~arrivals[i].busy})
  /\ \A i \in DOMAIN arrivals :
       ~arrivals[i].busy => \E w \in DOMAIN workers : workers[w].audio = arrivals[i].audio

\* A segment was dropped, the worker that was running has ended, a later
\* segment was accepted and has ended too, and nothing is left queued.
C2_Witness ==
  /\ \E i, j \in DOMAIN arrivals : i < j /\ arrivals[i].busy /\ ~arrivals[j].busy
  /\ Len(workers) = 2
  /\ \A w \in DOMAIN workers : workers[w].pc = "dead"
  /\ segment_ready = <<>>
  /\ Len(arrivals) = 3

\* The calls of segment_callback and of level_callback, in order.
SegmentEvents == SelectSeq(events, LAMBDA e : e.kind = "segment")
LevelEvents == SelectSeq(events, LAMBDA e : e.kind = "level")

\* The timeout in frames: voice_timeout * sample_rate / chunk_size, whole.
TimeoutFrames == (rec_config.voice_timeout * SampleRate) \div (1000 * ChunkSize)

\* A frame whose level, amplitude times gain over full scale, exceeds the
\* silence threshold.
Voiced(f) == f.amp * rec_config.gain > rec_config.silence_threshold * FullScale

\* Every frame read has gone through the body of the loop.
AllProcessed == \A t \in DOMAIN loops : loops[t].pc # "body"

\* C3: while no frame read has a level above the silence threshold, no
\* segment has been handed to segment_callback and the recorder is idle,
\* whatever the number of frames and the timeout.
C3_SilenceEmitsNothing ==
  (\A i \in DOMAIN source : ~Voiced(source[i])) =>
    /\ SegmentEvents = <<>>
    /\ ~voice_active

\* Four or more frames, none above the threshold and one exactly on it, have
\* been processed with a timeout of one frame.
C3_Witness ==
  /\ Len(source) >= 4
  /\ \A i \in DOMAIN source : ~Voiced(source[i])
  /\ \E i \in DOMAIN source :
       source[i].amp * rec_config.gain = rec_config.silence_threshold * FullScale
  /\ TimeoutFrames = 1
  /\ Len(LevelEvents) = Len(source)

\* The stream read so far is K voiced frames followed by unvoiced ones.
BurstThenSilence(K) ==
  /\ \A i \in 1..K : Voiced(source[i])
  /\ \A i \in (K + 1)..Len(source) : ~Voiced(source[i])

\* C4: from idle, K >= 1 voiced frames followed by more unvoiced frames than
\* the timeout frame count give exactly one segment, shorter than K plus the
\* timeout frame count, for every setting.
C4_OneSegmentPerBurst ==
  \A K \in 1..Len(source) :
    (/\ BurstThenSilence(K)
     /\ Len(source) - K > TimeoutFrames
     /\ AllProcessed)
    => /\ Len(SegmentEvents) = 1
       /\ Len(SegmentEvents[1].wav.data) < K + TimeoutFrames

C6_TranscriptionFailureFatal ==
  \A w \in DOMAIN workers :
    FailedCall(w, "transcribe") =>
      /\ workers[w].pc \in {"except_api", "finally", "dead"}
      /\ workers[w].exc # <<>>
      /\ workers[w].exc[1] = "Transcription"
      /\ workers[w].results = <<>>
      /\ CallsOf(w, "diarize") = <<>>
      /\ CallsOf(w, "translate") = <<>>
      /\ SignalsOf(w, "transcription_done") = <<>>
      /\ Ended(w) => Len(SignalsOf(w, "error_occurred")) = 1

\* The transcription call got a non-2xx answer and the worker has ended.
C6_Witness ==
  /\ Len(workers) = 1
  /\ workers[1].pc = "dead"
  /\ \E i \in DOMAIN calls : calls[i].service = "transcribe" /\ calls[i].outcome = "status"
  /\ Len(signals) = 1

\* C7: when the diarization call fails, process_audio goes on with the one
\* span [0, transcription.duration] of speaker 0: every utterance has
\* speaker 0, the failure itself is never raised, and unless a translation
\* call fails afterwards the list returned has one utterance per
\* transcription span.
C7_DiarizationFailureFallback ==
  \A w \in DOMAIN workers :
    FailedCall(w, "diarize") =>
      LET t == workers[w].transcription
          res == workers[w].results
      IN /\ workers[w].diarization_segments =
              << [start |-> 0, end |-> t.duration, speaker |-> 0] >>
         /\ \A k \in DOMAIN res : res[k].speaker_id = 0
         /\ workers[w].exc # <<>> => FailedCall(w, "translate")
         /\ (Ended(w) /\ ~FailedCall(w, "translate")) =>
              /\ Len(res) = Len(t.segments)
              /\ SignalsOf(w, "transcription_done") =
                   << [signal |-> "transcription_done", worker |-> w,
                       results |-> res, error |-> <<>>] >>
              /\ SignalsOf(w, "error_occurred") = <<>>

\* The diarization call failed and a list of two utterances was returned.
C7_Witness ==
  /\ Len(workers) = 1
  /\ FailedCall(1, "diarize")
  /\ workers[1].pc = "dead"
  /\ Len(SignalsOf(1, "transcription_done")) = 1
  /\ Len(signals[1].results) = 2

\* Span d holds the midpoint of seg, both ends included.
Holds(seg, d) ==
  /\ "start" \in DOMAIN d
  /\ "end" \in DOMAIN d
  /\ 2 * d.start <= seg.start + seg.end
  /\ seg.start + seg.end <= 2 * d.end

\* The label of the first span of D, in list order, that holds the midpoint
\* of seg (0 when the span has no label), and 0 when no span holds it.
ExpectedSpeaker(seg, D) ==
  IF \E j \in DOMAIN D : Holds(seg, D[j])
    THEN LET first == CHOOSE j \in DOMAIN D :
                        /\ Holds(seg, D[j])
                        /\ \A i \in 1..(j - 1) : ~Holds(seg, D[i])
         IN IF "speaker" \in DOMAIN D[first] THEN D[first].speaker ELSE 0
    ELSE 0

\* C8: every utterance built so far carries the label of the first
\* diarization span, in list order, whose [start, end] holds the midpoint of
\* its transcription span, both ends included, and 0 when no span holds it.
C8_SpeakerAssignment ==
  \A w \in DOMAIN workers :
    LET t == workers[w].transcription
        res == workers[w].results
    IN /\ Len(res) <= Len(t.segments)
       /\ \A k \in DOMAIN res :
            res[k].speaker_id =
              ExpectedSpeaker(t.segments[k], workers[w].diarization_segments)

\* Span (0,2), midpoint 1, lies on the end of [0,1] and gets its label 1
\* although the later [0,4] holds it too; span (2,5), midpoint 3.5, gets the
\* label 3 of [0,4].
C8_Witness ==
  /\ Len(workers) = 1
  /\ workers[1].diarization_segments =
       << [start |-> 0, end |-> 1, speaker |-> 1], [start |-> 0, end |-> 4, speaker |-> 3] >>
  /\ Len(workers[1].results) = 2
  /\ workers[1].results[1].start = 0 /\ workers[1].results[1].end = 2
  /\ workers[1].results[1].speaker_id = 1
  /\ workers[1].results[2].start = 2 /\ workers[1].results[2].end = 5
  /\ workers[1].results[2].speaker_id = 3

\* What translate returned for call c.
Returned(c) ==
  IF c.outcome = "ok" THEN <<"tr", c.text, c.source, c.target>> ELSE <<"raw", c.text>>

\* C9: the list process_audio returns has one utterance per transcription
\* span, in the transcription's order; utterance k has the text, start and
\* end of span k, the detected language, the speaker resolved for span k and
\* what the k-th translation call returned.
C9_OneUtterancePerSpan ==
  \A i \in DOMAIN signals :
    signals[i].signal = "transcription_done" =>
      LET w == signals[i].worker
          t == workers[w].transcription
          res == signals[i].results
          tc == CallsOf(w, "translate")
      IN /\ Len(res) = Len(t.segments)
         /\ Len(tc) = Len(t.segments)
         /\ \A k \in DOMAIN res :
              /\ res[k].text = t.segments[k].text
              /\ res[k].start = t.segments[k].start
              /\ res[k].end = t.segments[k].end
              /\ res[k].language = t.language
              /\ res[k].speaker_id =
                   ExpectedSpeaker(t.segments[k], workers[w].diarization_segments)
              /\ res[k].translation = Returned(tc[k])

\* Two spans come back in the transcription's order while the diarization
\* lists their speakers the other way round.
C9_Witness ==
  /\ Len(signals) = 1
  /\ signals[1].signal = "transcription_done"
  /\ Len(signals[1].results) = 2
  /\ signals[1].results[1].text = "szia"
  /\ signals[1].results[2].text = "hello"
  /\ workers[1].diarization_segments =
       << [start |-> 3, end |-> 4, speaker |-> 2], [start |-> 0, end |-> 1, speaker |-> 1] >>
  /\ signals[1].results[1].speaker_id = 1
  /\ signals[1].results[2].speaker_id = 2

\* C10: the translation calls of a worker are one per span, in order, each
\* from the detected language, into the configured source language when the
\* detected language is the configured target language and into the
\* configured target language otherwise.
C10_TranslationDirection ==
  \A w \in DOMAIN workers :
    LET t == workers[w].transcription
        tc == CallsOf(w, "translate")
        failed == IF FailedCall(w, "translate") THEN 1 ELSE 0
    IN /\ Len(tc) <= Len(t.segments)
       /\ Len(tc) = Len(workers[w].results) + failed
       /\ SignalsOf(w, "transcription_done") # <<>> => Len(tc) = Len(t.segments)
       /\ \A k \in DOMAIN tc :
            /\ tc[k].text = t.segments[k].text
            /\ tc[k].source = t.language
            /\ tc[k].target =
                 IF t.language = config.target_language
                   THEN config.source_language
                   ELSE config.target_language

\* English was detected with Hungarian to English configured: both spans
\* were translated back into Hungarian.
C10_Witness ==
  /\ config = [source_language |-> "hu", target_language |-> "en"]
  /\ Len(workers) = 1
  /\ workers[1].transcription.language = "en"
  /\ Len(SignalsOf(1, "transcription_done")) = 1
  /\ Len(CallsOf(1, "translate")) = 2
  /\ \A i \in DOMAIN calls :
       calls[i].service = "translate" => calls[i].target = "hu"

\* C12: a failed translation call is the last backend call of its segment:
\* no later span is translated, the worker leaves the merge with an APIError,
\* no result list is emitted for the segment (the utterances built before the
\* failure included), and the one signal emitted is the error.
C12_TranslationFailureAborts ==
  \A w \in DOMAIN workers :
    \A i \in DOMAIN calls :
      (calls[i].worker = w /\ calls[i].service = "translate"
         /\ calls[i].outcome \in Failures)
      => /\ \A j \in DOMAIN calls : j > i => calls[j].worker # w
         /\ workers[w].pc \in {"except_api", "finally", "dead"}
         /\ workers[w].exc = <<"Translation",
                                IF calls[i].outcome = "timeout" THEN "request timed out"
                                ELSE IF calls[i].outcome = "status" THEN "failed"
                                ELSE "error">>
         /\ SignalsOf(w, "transcription_done") = <<>>
         /\ Ended(w) =>
              /\ Len(SignalsOf(w, "error_occurred")) = 1
              /\ SignalsOf(w, "error_occurred")[1].error = workers[w].exc
              /\ SignalsOf(w, "error_occurred")[1].results = <<>>

\* Of two spans the first was translated and the second failed: the worker
\* has ended holding one utterance, and only the error was emitted.
C12_Witness ==
  /\ Len(workers) = 1
  /\ workers[1].pc = "dead"
  /\ Len(workers[1].transcription.segments) = 2
  /\ Len(CallsOf(1, "translate")) = 2
  /\ CallsOf(1, "translate")[1].outcome = "ok"
  /\ CallsOf(1, "translate")[2].outcome = "timeout"
  /\ Len(workers[1].results) = 1
  /\ Len(signals) = 1
  /\ signals[1].signal = "error_occurred"

\* The worker whose transcription call failed.
TranscriptionFailed(w) ==
  \E i \in DOMAIN calls :
    /\ calls[i].worker = w
    /\ calls[i].service = "transcribe"
    /\ calls[i].outcome \in Failures

\* The signals not yet handled by the GUI thread start with the error of a
\* worker whose transcription failed.
ErrorPending ==
  /\ handled < Len(signals)
  /\ signals[handled + 1].signal = "error_occurred"
  /\ TranscriptionFailed(signals[handled + 1].worker)

\* C11, in a state: a worker whose transcription failed and that has ended
\* has emitted the error and nothing else, and the busy flag is clear.
C11_ErrorReportedFlagCleared ==
  \A w \in DOMAIN workers :
    (TranscriptionFailed(w) /\ workers[w].pc = "dead")
    => /\ Len(SignalsOf(w, "error_occurred")) = 1
       /\ SignalsOf(w, "transcription_done") = <<>>
       /\ (w = Len(workers) => ~processing)

\* C11, in a step: the steps of a worker whose transcription failed and the
\* handling of its error by _on_error leave the listening flag, the recorder
\* and its capture loop as they are.
C11_ListeningUntouched ==
  ((\E w \in DOMAIN workers : TranscriptionFailed(w)' /\ workers'[w] # workers[w])
     \/ (ErrorPending /\ handled' = handled + 1))
  => /\ listening' = listening
     /\ recVars' = recVars
     /\ segment_ready' = segment_ready

\* C11, in a step: the segment handled next after such a worker has ended is
\* accepted and gets a worker of its own.
C11_NextSegmentAccepted ==
  (/\ Len(arrivals') = Len(arrivals) + 1
   /\ workers # <<>>
   /\ TranscriptionFailed(Len(workers))
   /\ workers[Len(workers)].pc = "dead")
  => /\ ~arrivals'[Len(arrivals')].busy
     /\ Len(workers') = Len(workers) + 1
     /\ workers'[Len(workers')].audio = arrivals'[Len(arrivals')].audio

\* C11: a transcription failure is transient: the error is reported, the
\* listening state and the capture loop are left unchanged, the busy flag is
\* cleared and the next segment handled afterwards is accepted.
C11_TranscriptionFailureTransient ==
  /\ []C11_ErrorReportedFlagCleared
  /\ [][C11_ListeningUntouched]_vars
  /\ [][C11_NextSegmentAccepted]_vars

\* The first worker failed at transcription and its error was handled, while
\* the application went on listening and the loop went on reading; the
\* segment emitted after the failure has a worker that transcribed it.
C11_Witness ==
  /\ Len(workers) = 2
  /\ TranscriptionFailed(1)
  /\ workers[1].pc = "dead"
  /\ handled >= 1
  /\ signals[1].signal = "error_occurred"
  /\ listening /\ recording
  /\ thread = 1 /\ loops[1].pc = "read"
  /\ ~arrivals[2].busy
  /\ workers[2].audio = 2
  /\ workers[2].pc = "diarize"

\* The step is a request of the given kind answered with the given status.
Answered(op, status) == reply'.op = op /\ reply'.status = status

\* C13: an enroll that is not for the primary user is answered with an id
\* that no profile of the registry holds at that moment, keeps every profile
\* that was there, and makes the registry one profile larger.
C13_EnrollAllocatesUnusedId ==
  [][(Answered("enroll", 200) /\ ~reply'.is_user)
     => /\ reply'.speaker_id \notin Keys(speaker_embeddings)
        /\ Len(speaker_embeddings') = Len(speaker_embeddings) + 1
        /\ \A i \in DOMAIN speaker_embeddings :
             speaker_embeddings'[i] = speaker_embeddings[i]]_vars

\* C14: a profile is marked as the user exactly when its id is speaker_0.
C14_PrimaryIffSpeakerZero ==
  \A i \in DOMAIN speaker_embeddings :
    speaker_embeddings[i].value.is_user <=> speaker_embeddings[i].key = <<"speaker", 0>>

\* C15: an enroll for the primary user stores the new profile under
\* speaker_0 and changes no profile but a primary-user profile that was
\* there: every profile not marked as the user is kept as it was.
C15_PrimaryEnrollFrame ==
  [][(Answered("enroll", 200) /\ reply'.is_user)
     => /\ reply'.speaker_id = <<"speaker", 0>>
        /\ \E i \in DOMAIN speaker_embeddings' :
             /\ speaker_embeddings'[i].key = <<"speaker", 0>>
             /\ speaker_embeddings'[i].value.is_user
             /\ speaker_embeddings'[i].value.name = reply'.name
        /\ \A i \in DOMAIN speaker_embeddings :
             ~speaker_embeddings[i].value.is_user
               => \E j \in DOMAIN speaker_embeddings' :
                    speaker_embeddings'[j] = speaker_embeddings[i]]_vars

\* The ids of the index on disk, and whether each has its vector file.
IndexIds == {index_file.entries[i].key : i \in DOMAIN index_file.entries}
IndexFilesPresent ==
  \A i \in DOMAIN index_file.entries :
    \E f \in emb_files : f.file = index_file.entries[i].value.embedding_file

\* C16: right after an enroll or a delete that succeeded, the index on disk
\* lists exactly the ids of the dict in memory, and each of its entries has
\* its vector file.
C16_RegistryConsistent ==
  (reply.op \in {"enroll", "delete"} /\ reply.status = 200)
  => /\ index_file.exists
     /\ IndexIds = {speaker_embeddings[i].key : i \in DOMAIN speaker_embeddings}
     /\ Len(index_file.entries) = Len(speaker_embeddings)
     /\ IndexFilesPresent

\* A delete succeeded after a save had failed, and the directory holds a
\* vector file that the index does not list.
C16_Witness ==
  /\ reply.op = "delete" /\ reply.status = 200
  /\ disk_failures = 1
  /\ Cardinality(emb_files) > Len(index_file.entries)

C18_DeleteUnknownNotFound ==
  [][(reply'.op = "delete"
        /\ reply'.speaker_id \notin {speaker_embeddings[i].key : i \in DOMAIN speaker_embeddings})
     => /\ reply'.status = 404
        /\ UNCHANGED <<speaker_embeddings, index_file, emb_files>>]_vars

\* An id that differs from an enrolled one by its case only was not found,
\* with two profiles enrolled.
C18_Witness ==
  /\ reply = [op |-> "delete", status |-> 404, speaker_id |-> <<"Speaker", 0>>]
  /\ Len(speaker_embeddings) = 2
  /\ Cardinality(emb_files) = 2

\* C19 as stated: an identify call never answers with an id that a delete
\* has removed at some earlier time, whatever requests came in between.
C19_DeletedNeverIdentified ==
  (reply.op = "identify" /\ reply.status = 200)
  => reply.speaker_id \notin ever_removed

\* C19, amended: an identify call never answers with an id that a delete has
\* removed, until an enroll stores a profile under that id again; restarts
\* of the service do not bring the profile back.
C19_DeletedNotIdentifiedUntilEnrolled ==
  /\ (reply.op = "identify" /\ reply.status = 200) => reply.speaker_id \notin removed
  /\ \A i \in DOMAIN speaker_embeddings : speaker_embeddings[i].key \notin removed

\* The sample of a deleted profile was identified as the other profile, at
\* cosine 0.8, with the deleted id still free.
C19_Witness ==
  /\ reply.op = "identify" /\ reply.status = 200
  /\ reply.file = "amy"
  /\ reply.speaker_id = <<"speaker", 1>>
  /\ removed = {<<"speaker", 0>>}

\* The vector of an enrolled sample, and the id of the first profile, in the
\* order of the dict, that holds a given vector.
SampleVector(file) ==
  CASE file = "ann" -> <<1, 0, 0, 0>>
    [] file = "bob" -> <<7, 1, 5, 5>>
FirstWithVector(profiles, vector) ==
  profiles[CHOOSE i \in DOMAIN profiles :
             /\ profiles[i].value.embedding = vector
             /\ \A j \in 1..(i - 1) : profiles[j].value.embedding # vector].key

\* The step is an identify of the sample that the request before it enrolled.
EnrollThenIdentify ==
  /\ reply.op = "enroll" /\ reply.status = 200
  /\ reply'.op = "identify" /\ reply'.file = reply.file

\* C20 as stated: an identify of the sample that the request before it
\* enrolled answers with the id that the enroll answered with.
C20_EnrollIdentifyRoundTrip ==
  [][EnrollThenIdentify
     => /\ reply'.status = 200
        /\ reply'.speaker_id = reply.speaker_id]_vars

\* C20, amended: such an identify answers with the id of the first profile,
\* in the order of the dict, whose vector is that of the sample; this is the
\* id of the enroll whenever no other profile holds the same vector.
C20_RoundTripFirstMatch ==
  [][EnrollThenIdentify
     => /\ reply'.status = 200
        /\ reply'.speaker_id = FirstWithVector(speaker_embeddings, SampleVector(reply.file))
        /\ reply'.confidence.d * reply'.confidence.d = reply'.confidence.n
        /\ (\A i \in DOMAIN speaker_embeddings :
              speaker_embeddings[i].value.embedding = SampleVector(reply.file)
                => speaker_embeddings[i].key = reply.speaker_id)
           => reply'.speaker_id = reply.speaker_id]_vars

\* A sample was enrolled twice, under speaker_0 and then under speaker_1,
\* and identified right after the second enroll as speaker_0.
C20_Witness ==
  /\ reply.op = "identify" /\ reply.status = 200
  /\ reply.file = "bob"
  /\ reply.speaker_id = <<"speaker", 0>>
  /\ Len(speaker_embeddings) = 2
  /\ speaker_embeddings[1].value.embedding = <<7, 1, 5, 5>>
  /\ speaker_embeddings[2].value.embedding = <<7, 1, 5, 5>>

\* The cosine of two vectors is above 7/10: the dot product is positive and
\* 100 times its square is above 49 times the product of the squared norms.
AboveSevenTenths(a, b) ==
  /\ Dot(a, b) > 0
  /\ 100 * Dot(a, b) * Dot(a, b) > 49 * Dot(a, a) * Dot(b, b)

\* C21: an identify that is answered names a profile exactly when the
\* similarity of the sample to some profile, hence the largest one, is above
\* 0.7; with a largest similarity of exactly 0.7 the answer is Unknown (-1).
C21_MatchIffAboveThreshold ==
  [][Answered("identify", 200)
     => (reply'.speaker_id # <<"", -1>>
           <=> \E i \in DOMAIN speaker_embeddings :
                 AboveSevenTenths(Embedding(reply'.file),
                                  speaker_embeddings[i].value.embedding))]_vars

\* The sample "bob", at cosine exactly 0.7 of the one profile enrolled, was
\* answered Unknown with that confidence.
C21_Witness ==
  /\ reply.op = "identify" /\ reply.status = 200
  /\ reply.file = "bob"
  /\ Len(speaker_embeddings) = 1
  /\ speaker_embeddings[1].value.embedding = <<1, 0, 0, 0>>
  /\ reply.speaker_id = <<"", -1>>
  /\ reply.confidence = [d |-> 7, n |-> 100]

\* C22: an identify on a registry without profiles is answered Unknown
\* (speaker_id -1, name "Unknown") with confidence 0.0 whatever the audio is,
\* readable or not, and changes neither the dict nor the index nor any
\* vector file.
C22_EmptyRegistryUnknown ==
  [][(reply'.op = "identify" /\ speaker_embeddings = <<>>)
     => /\ reply'.status = 200
        /\ reply'.speaker_id = <<"", -1>>
        /\ reply'.speaker_name = "Unknown"
        /\ reply'.confidence = [d |-> 0, n |-> 1]
        /\ UNCHANGED <<speaker_embeddings, index_file, emb_files>>]_vars

\* A file that is no audio was answered Unknown by a registry that a delete
\* had emptied.
C22_Witness ==
  /\ reply.op = "identify" /\ reply.status = 200
  /\ reply.file = "noise"
  /\ reply.speaker_id = <<"", -1>>
  /\ speaker_embeddings = <<>>
  /\ index_file.exists
  /\ ever_removed # {}

\* C23: an enroll whose audio cannot be turned into an embedding is answered
\* with an error and leaves the dict, the index and the vector files as they
\* were: no profile added or overwritten, nothing written.
C23_EnrollFailureChangesNothing ==
  [][(reply'.op = "enroll" /\ reply'.file = "noise")
     => /\ reply'.status = 500
        /\ UNCHANGED <<speaker_embeddings, index_file, emb_files>>]_vars

\* An enroll of a file that is no audio failed on a registry of one profile,
\* which has its index entry and its vector file.
C23_Witness ==
  /\ reply = [op |-> "enroll", status |-> 500, file |-> "noise"]
  /\ Len(speaker_embeddings) = 1
  /\ Len(index_file.entries) = 1
  /\ Cardinality(emb_files) = 1

\* The dict as a mapping: its items without their order, and no key twice.
Mapping(d) == {d[i] : i \in DOMAIN d}
UniqueKeys(d) == \A i, j \in DOMAIN d : d[i].key = d[j].key => i = j

\* C28: when the service is started again after enrolls and deletes that
\* succeeded, the dict loaded from the index and the vector files maps the
\* same ids to the same name, embedding and is_user mark as the dict that
\* was in memory before.
C28_RestartReproducesRegistry ==
  [][reply'.op = "startup"
     => /\ Mapping(speaker_embeddings') = Mapping(speaker_embeddings)
        /\ Len(speaker_embeddings') = Len(speaker_embeddings)
        /\ UniqueKeys(speaker_embeddings')]_vars

\* The service came up with two profiles, one of them the user's, after a
\* profile had been deleted.
C28_Witness ==
  /\ reply.op = "startup"
  /\ Len(speaker_embeddings) = 2
  /\ ever_removed # {}
  /\ \E i \in DOMAIN speaker_embeddings : speaker_embeddings[i].value.is_user
  /\ \E i \in DOMAIN speaker_embeddings : ~speaker_embeddings[i].value.is_user

\* C24: while the recorder is stopped (stop has returned, or no capture was
\* ever started), no step of a capture thread delivers a segment to
\* segment_callback, also when the join gave up on a thread inside read.
C24_NoSegmentAfterStop ==
  [][(~recording /\ gui = "idle") => SegmentEvents' = SegmentEvents]_vars

\* The step is one of the two steps of _stop_listening: the flags are
\* cleared, or recorder.stop returns from its join.
StopStep == (listening /\ ~listening') \/ (gui = "join" /\ gui' = "idle")

\* C25, the stop: the steps of _stop_listening leave the busy flag, the
\* workers, their backend calls, the signals emitted and the segments
\* queued as they are.
C25_StopLeavesPipeline ==
  StopStep => UNCHANGED <<processing, workers, calls, signals, segment_ready, arrivals>>

\* C25, the worker: with the capture stopped, a worker whose process_audio
\* returns emits transcription_done with its result list, and a worker whose
\* process_audio raised an APIError emits error_occurred with that error.
C25_DeliveredWhileStopped ==
  \A w \in DOMAIN workers :
    (/\ ~listening /\ ~recording
     /\ workers[w].pc \in {"merge", "except_api"}
     /\ workers'[w].pc = "finally"
     /\ workers'[w].exc = workers[w].exc)
    => signals' = Append(signals,
                    IF workers[w].pc = "merge"
                      THEN [signal |-> "transcription_done", worker |-> w,
                            results |-> workers[w].results, error |-> <<>>]
                      ELSE [signal |-> "error_occurred", worker |-> w,
                            results |-> <<>>, error |-> workers[w].exc])

\* C25: stopping the capture leaves a pipeline run in flight untouched, and
\* the run's result list or error is still emitted after the stop.
C25_StopLeavesWorkerRunning ==
  /\ [][C25_StopLeavesPipeline]_vars
  /\ [][C25_DeliveredWhileStopped]_vars

\* The listening was stopped and recorder.stop has returned, while the
\* worker of the first segment is at the end of process_audio with one
\* utterance to deliver and the busy flag set.
C25_Witness ==
  /\ ~listening /\ ~recording
  /\ gui = "idle" /\ thread = 0 /\ ~stream
  /\ Len(workers) = 1
  /\ workers[1].pc = "merge"
  /\ Len(workers[1].results) = 1
  /\ workers[1].idx > Len(workers[1].transcription.segments)
  /\ processing
  /\ signals = <<>>

\* C26: when the opening of the audio device fails inside the start of
\* listening, the application is not in the listening state afterwards and
\* no capture thread runs.
C26_FailedOpenNotListening ==
  [][(gui = "open" /\ gui' = "idle" /\ ~recording')
     => (~listening' /\ thread' = 0)]_vars

\* The whole number of frames of frame_size samples in `duration` ms.
ExpectedChunks(duration) ==
  CHOOSE n \in 0..duration :
    /\ n * 1000 * ChunkSize <= duration * SampleRate
    /\ duration * SampleRate < (n + 1) * 1000 * ChunkSize

\* C27: an enrollment capture that returns audio has read exactly
\* int(duration * sample_rate / frame_size) frames from its stream and
\* returns all of them, silent or voiced, joined in the order read.
C27_EnrollmentCaptureFixedLength ==
  (enrollment.pc = "done" /\ enrollment.result.rate # 0)
  => /\ Len(enrollment.reads) = ExpectedChunks(enrollment.duration)
     /\ enrollment.result.data = enrollment.reads
     /\ enrollment.result.rate = SampleRate

\* A capture of 200 ms returned three frames, the first and the last of
\* them silent, under a silence threshold of 0.5.
C27_Witness ==
  /\ enrollment.pc = "done"
  /\ enrollment.duration = 200
  /\ rec_config.silence_threshold = 50
  /\ Len(enrollment.result.data) = 3
  /\ enrollment.result.data[1].amp = 0
  /\ enrollment.result.data[2].amp = 20000
  /\ enrollment.result.data[3].amp = 0

\* The language on the other side of the configured pair from English.
OppositeOfEnglish ==
  IF config.target_language = "en" THEN config.source_language ELSE config.target_language

\* C29: every call for speech made by the handler of a result list is for
\* an utterance detected as English with a translation that is not empty,
\* is made with TTS enabled, passes that translation, and asks for the
\* opposite language of the configured pair; no utterance detected in
\* another language gets a call.
C29_SpeechOnlyForTriggerLanguage ==
  [][\A i \in (Len(spoken) + 1)..Len(spoken') :
       LET call == spoken'[i]
           utterance == call.utterance
       IN /\ tts_enabled
          /\ utterance.language \in {"en", "EN"}
          /\ utterance.translation # <<>>
          /\ call.text = utterance.translation
          /\ call.language = OppositeOfEnglish]_vars

\* The step is the body of the capture loop for a silent frame that takes
\* the count of trailing silent frames to the timeout frame count.
TimeoutReached ==
  /\ loops # <<>>
  /\ loops[1].pc = "body" /\ loops'[1].pc = "test"
  /\ voice_active
  /\ ~Voiced(loops[1].data)
  /\ loops[1].silence_frames + 1 >= TimeoutFrames

\* C30: at the timeout a segment is handed to segment_callback that is the
\* buffer, the frame just read included, without its last `counter` frames
\* (silent frames of earlier, shorter gaps stay in); afterwards the recorder
\* is idle with an empty buffer and a counter of zero.  For every timeout
\* frame count of the settings.
C30_TimeoutEmitsTrimmedBuffer ==
  [][TimeoutReached
     => LET counter == loops[1].silence_frames + 1
            buffered == Append(frames, loops[1].data)
        IN /\ Len(events') = Len(events) + 2
           /\ events'[Len(events')].kind = "segment"
           /\ events'[Len(events')].wav.data
                = SubSeq(buffered, 1, Len(buffered) - counter)
           /\ ~voice_active'
           /\ frames' = <<>>
           /\ loops'[1].silence_frames = 0]_vars

\* The step is the body of the capture loop for a voiced frame that comes
\* after silent frames fewer than the timeout frame count.
VoiceResumed ==
  /\ loops # <<>>
  /\ loops[1].pc = "body" /\ loops'[1].pc = "test"
  /\ voice_active
  /\ loops[1].silence_frames > 0
  /\ Voiced(loops[1].data)

\* C31, in a step: such a frame emits no segment, puts the counter back to
\* zero and is appended to the buffer, which keeps the silent frames.
C31_ResumeKeepsBuffer ==
  VoiceResumed
  => /\ SegmentEvents' = SegmentEvents
     /\ loops'[1].silence_frames = 0
     /\ voice_active'
     /\ frames' = Append(frames, loops[1].data)
     /\ \E i \in DOMAIN frames : ~Voiced(frames[i])

\* C31, in a state: two voiced frames with fewer silent frames between
\* them than the timeout frame count are in the same segments, together
\* with the silent frames between them.
C31_ShortGapInsideSegment ==
  \A e \in DOMAIN SegmentEvents :
    \A i, k \in DOMAIN source :
      (/\ i < k
       /\ k - i - 1 < TimeoutFrames
       /\ Voiced(source[i]) /\ Voiced(source[k])
       /\ \A j \in (i + 1)..(k - 1) : ~Voiced(source[j]))
      => LET data == SegmentEvents[e].wav.data
             In(f) == \E q \in DOMAIN data : data[q] = f
         IN /\ In(source[i]) <=> In(source[k])
            /\ In(source[i]) => \A j \in i..k : In(source[j])

\* C31: a voiced frame before the timeout continues the segment, so that two
\* bursts a short gap apart come out as one segment with the gap inside.
C31_ShortGapOneSegment ==
  /\ [][C31_ResumeKeepsBuffer]_vars
  /\ []C31_ShortGapInsideSegment

\* With a timeout of two frames, a segment of three frames was emitted: a
\* voiced one, a silent one and a voiced one.
C31_Witness ==
  /\ TimeoutFrames = 2
  /\ Len(SegmentEvents) = 1
  /\ Len(SegmentEvents[1].wav.data) = 3
  /\ Voiced(SegmentEvents[1].wav.data[1])
  /\ ~Voiced(SegmentEvents[1].wav.data[2])
  /\ Voiced(SegmentEvents[1].wav.data[3])

\* C40: a capture loop goes on for another turn of `while self._recording`
\* only if it is the thread the recorder holds; a loop that a stop has given
\* up never does, whatever stop and start_continuous calls follow.
C40_OneCaptureLoop ==
  [][\A t \in DOMAIN loops :
       (loops[t].pc = "test" /\ loops'[t].pc = "read") => t = thread]_vars

\* The frames of the i-th segment handed to segment_callback.
SegmentData(i) == SegmentEvents[i].wav.data

\* C32: the segments handed to segment_callback are runs of consecutive
\* frames of the stream as it was read, each later in the stream than the
\* segment before it, so that no frame is in two segments.
C32_SegmentsContiguousOrdered ==
  /\ \A i \in DOMAIN SegmentEvents :
       /\ \A q \in DOMAIN SegmentData(i) :
            /\ SegmentData(i)[q].n \in DOMAIN source
            /\ SegmentData(i)[q] = source[SegmentData(i)[q].n]
       /\ \A q \in 1..(Len(SegmentData(i)) - 1) :
            SegmentData(i)[q + 1].n = SegmentData(i)[q].n + 1
  /\ \A i, j \in DOMAIN SegmentEvents :
       i < j => \A q \in DOMAIN SegmentData(i), r \in DOMAIN SegmentData(j) :
                  SegmentData(i)[q].n < SegmentData(j)[r].n

\* The similarity of vector a to the query q is above that of vector b:
\* x |-> x * |x| is increasing, so the cosines are compared through the
\* signed squares dot * |dot| / (|q|^2 |v|^2), cross-multiplied.
Abs(x) == IF x < 0 THEN -x ELSE x
MoreSimilar(q, a, b) ==
  Dot(q, a) * Abs(Dot(q, a)) * Dot(b, b) > Dot(q, b) * Abs(Dot(q, b)) * Dot(a, a)

\* The place of the first profile, in the order of the dict, among those
\* most similar to the query.
FirstMostSimilar(q, profiles) ==
  CHOOSE i \in DOMAIN profiles :
    /\ \A j \in DOMAIN profiles :
         ~MoreSimilar(q, profiles[j].value.embedding, profiles[i].value.embedding)
    /\ \A j \in 1..(i - 1) :
         MoreSimilar(q, profiles[i].value.embedding, profiles[j].value.embedding)

\* C33: an identify that names a profile names one of the largest
\* similarity to the sample, and among several of them the first in the
\* insertion order of the registry.
C33_FirstMaximumSelected ==
  [][(Answered("identify", 200) /\ reply'.speaker_id # <<"", -1>>)
     => LET best == FirstMostSimilar(Embedding(reply'.file), speaker_embeddings)
        IN /\ reply'.speaker_id = speaker_embeddings[best].key
           /\ reply'.speaker_name = speaker_embeddings[best].value.name
           /\ reply'.confidence
                = Cosine(Embedding(reply'.file), speaker_embeddings[best].value.embedding)]_vars

\* Two profiles hold the same vector, at cosine 0.8 of the sample "amy",
\* which was identified as the one enrolled first.
C33_Witness ==
  /\ reply.op = "identify" /\ reply.status = 200
  /\ reply.file = "amy"
  /\ Len(speaker_embeddings) = 2
  /\ speaker_embeddings[1].value.embedding = <<1, 0, 0, 0>>
  /\ speaker_embeddings[2].value.embedding = <<1, 0, 0, 0>>
  /\ reply.speaker_id = speaker_embeddings[1].key
  /\ reply.confidence = [d |-> 4, n |-> 25]

\* C34: an identify on a non-empty registry that names no profile reports
\* the largest similarity of the sample to an enrolled profile, whatever
\* its value, the lowest one (-1) included.
C34_UnknownReportsBestScore ==
  [][(/\ Answered("identify", 200)
      /\ reply'.speaker_id = <<"", -1>>
      /\ speaker_embeddings # <<>>)
     => LET best == FirstMostSimilar(Embedding(reply'.file), speaker_embeddings)
        IN reply'.confidence
             = Cosine(Embedding(reply'.file), speaker_embeddings[best].value.embedding)]_vars

\* Thread t leaves self._stream.read through the except clause.
ReadRaised(t) ==
  /\ t \in DOMAIN loops
  /\ loops[t].pc = "read"
  /\ loops'[t].pc = "test"

\* A failed read leaves the buffer, the voice state, the count of silent
\* frames and the level alone, and calls neither callback.
C35_FailedReadKeepsState ==
  \A t \in DOMAIN loops :
    ReadRaised(t)
      => /\ UNCHANGED <<frames, voice_active, level, events, source, recording>>
         /\ loops'[t].silence_frames = loops[t].silence_frames
         /\ loops'[t].frames_for_timeout = loops[t].frames_for_timeout

\* After a failed read the loop tests the flag and, the capture not being
\* stopped, enters the next read.
C35_FailedReadNextRead ==
  \A t \in DOMAIN loops :
    (loops[t].raised /\ loops'[t] # loops[t])
      => loops'[t].pc = IF recording THEN "read" ELSE "exit"

\* C35: a read of a frame that fails changes nothing (voice state, buffer,
\* count of silent frames), reports no level and emits no segment, and the
\* loop goes on to the next read as long as the capture is not stopped.
C35_FailedReadSkipsFrame ==
  [][C35_FailedReadKeepsState /\ C35_FailedReadNextRead]_vars

\* Inside a segment, after a silent frame below the timeout, a read has
\* failed and the loop has entered the next read.
C35_Witness ==
  \E t \in DOMAIN loops :
    /\ loops[t].raised
    /\ loops[t].pc = "test"
    /\ recording
    /\ voice_active
    /\ loops[t].silence_frames = 1
    /\ Len(frames) = 2

\* C37: every segment handed to segment_callback holds at least one frame,
\* and its first and its last frame are voiced, whatever the number of
\* frames of the timeout.
C37_SegmentVoicedEnds ==
  \A i \in DOMAIN SegmentEvents :
    /\ SegmentData(i) # <<>>
    /\ Voiced(SegmentData(i)[1])
    /\ Voiced(SegmentData(i)[Len(SegmentData(i))])

\* The notifications worker w has emitted, of either kind.
Notifications(w) == SelectSeq(signals, LAMBDA s : s.worker = w)

\* C39: the worker of every accepted segment, once process_audio has
\* terminated in whatever way, has emitted exactly one notification:
\* transcription_done or error_occurred, never both and never neither.
C39_ExactlyOneNotification ==
  \A w \in DOMAIN workers :
    /\ Len(Notifications(w)) <= 1
    /\ Ended(w) => Len(Notifications(w)) = 1

\* A worker thread that has not ended.
InFlight(w) == w \in DOMAIN workers /\ workers[w].pc # "dead"

\* The flag is set only while a worker is in flight.
C38_BusyOnlyWhileInFlight ==
  processing => \E w \in DOMAIN workers : InFlight(w)

\* The worker that ends leaves the flag cleared.
C38_EndClearsFlag ==
  \A w \in DOMAIN workers :
    (workers[w].pc # "dead" /\ workers'[w].pc = "dead") => ~processing'

\* C38: the busy flag is set only while a worker is running, and the worker
\* of every accepted segment ends and clears the flag, whether process_audio
\* returned, raised APIError or raised another exception.
C38_WorkerClearsFlag ==
  /\ []C38_BusyOnlyWhileInFlight
  /\ [][C38_EndClearsFlag]_vars
  /\ \A w \in 1..MaxSegments : InFlight(w) ~> ~InFlight(w)

\* A worker whose process_audio raised KeyError has ended and the flag is
\* cleared.
C38_Witness ==
  /\ ~processing
  /\ \E w \in DOMAIN workers :
       /\ workers[w].pc = "dead"
       /\ workers[w].exc = KeyError

\* The steps of the GUI thread inside _quit.
QuitStep == gui' # gui /\ gui' \in {"quit_join", "cleanup", "cleanup_join", "terminate", "quit"}

\* The stream is closed by a stop whose join has returned, the flag cleared.
C36_CloseAfterJoin ==
  (stream /\ ~stream')
    => /\ ~recording
       /\ gui \in {"join", "quit_join", "cleanup_join"}
       /\ thread' = 0

\* The device is released with the flag cleared, no thread kept and the
\* stream closed.
C36_ReleaseAfterClose ==
  (pyaudio /\ ~pyaudio')
    => /\ ~recording
       /\ thread = 0
       /\ ~stream
       /\ gui = "terminate"

\* _quit leaves the workers and what they have produced alone.
C36_QuitLeavesWorkers ==
  QuitStep => UNCHANGED <<workers, processing, signals, calls, segment_ready>>

\* After _quit the recorder is stopped and the device released.
C36_QuitReleased ==
  gui = "quit" => ~listening /\ ~recording /\ thread = 0 /\ ~stream /\ ~pyaudio

\* C36: on quit the capture is stopped first (flag cleared, thread joined
\* with a bounded wait), only then the stream is closed and the device
\* released, and a worker still running is neither cancelled nor waited for.
C36_ShutdownOrder ==
  /\ [][C36_CloseAfterJoin /\ C36_ReleaseAfterClose /\ C36_QuitLeavesWorkers]_vars
  /\ []C36_QuitReleased

\* The application has quit after a listening session while the worker of
\* a segment is still inside process_audio.
C36_Witness ==
  /\ gui = "quit"
  /\ ~pyaudio
  /\ Len(loops) = 1
  /\ processing
  /\ \E w \in DOMAIN workers : InProcessAudio(w)

====
